---- MODULE Spec2Model ----
(***************************************************************************)
(* Garbage collector of the Cosmos+ OpenSSD flash translation layer.       *)
(* Three victim-selection builds (Greedy, Cost-Benefit, CAT) share one     *)
(* per-die, per-invalid-count bucket index of intrusive doubly-linked      *)
(* block lists.  The build is a compile-time choice; the model carries it  *)
(* in the variable policy, fixed at Init.                                  *)
(***************************************************************************)
EXTENDS Integers, Sequences, FiniteSets, TLC

\* ------------------------------------------------------------ dimensions
USER_DIES == 2
USER_BLOCKS_PER_DIE == 3
SLICES_PER_BLOCK == 3
USER_PAGES_PER_BLOCK == 3

\* Sentinels: the 16-bit "no block" value of the head/tail bit-fields.
BLOCK_NONE == 65535
BLOCK_FAIL == 65535

\* ---------------------------------------------------------------- bounds
MaxTick == 3
MaxErase == 1

\* Logical slice addresses the host uses.
MaxLsa == 2

Dies == 0 .. (USER_DIES - 1)
Blocks == 0 .. (USER_BLOCKS_PER_DIE - 1)
Buckets == 0 .. SLICES_PER_BLOCK
Pages == 0 .. (USER_PAGES_PER_BLOCK - 1)
Lsas == 0 .. (MaxLsa - 1)
Policies == {"GREEDY", "COST_BENEFIT", "CAT"}

\* Sentinels of the mapping tables.
LSA_NONE == 65534
VSA_NONE == 65533

\* Vorg2VsaTranslation: the virtual slice address of (die, block, page).
Vorg2VsaTranslation(dieNo, blockNo, pageNo) ==
    dieNo + USER_DIES * (blockNo * SLICES_PER_BLOCK + pageNo)

Vsas == {Vorg2VsaTranslation(d, b, p) : d \in Dies, b \in Blocks, p \in Pages}

VARIABLES
    policy,           \* which of the three source files is built
    goodBlocks,       \* the <<die, block>> pairs the FTL uses; the others are
                      \* bad blocks and never reach the collector
    headBlock,        \* gcVictimMapPtr->gcVictimList[die][cnt].headBlock
    tailBlock,        \* gcVictimMapPtr->gcVictimList[die][cnt].tailBlock
    prevBlock,        \* virtualBlockMapPtr->block[die][blk].prevBlock
    nextBlock,        \* virtualBlockMapPtr->block[die][blk].nextBlock
    invalidSliceCnt,  \* virtualBlockMapPtr->block[die][blk].invalidSliceCnt
    eraseCnt,         \* virtualBlockMapPtr->block[die][blk].eraseCnt
    gcActivityTick,   \* logical clock (Cost-Benefit and CAT builds)
    gcLastTick,       \* gcLastEraseTick (Cost-Benefit) / gcLastInvalidTick (CAT)
    logicalSliceMap,  \* logicalSliceMapPtr->logicalSlice[lsa].virtualSliceAddr
    virtualSliceMap,  \* virtualSliceMapPtr->virtualSlice[vsa].logicalSliceAddr
    reqLog,           \* what the operation that ran last handed to the low-level
                      \* scheduler, the allocators and EraseBlock, in order
    pending,          \* <<die, block>> the host-write path has detached and
                      \* not yet put back, or << >>
    fault,            \* TRUE once the fatal assertion has fired
    lastOp            \* the call that produced this state: its name, its die
                      \* and its block (argument, or the block it returned)

vars == <<policy, goodBlocks, headBlock, tailBlock, prevBlock, nextBlock, invalidSliceCnt,
          eraseCnt, gcActivityTick, gcLastTick, logicalSliceMap,
          virtualSliceMap, reqLog, pending, fault, lastOp>>

\* The candidate index as one value, so that the list routines can be
\* composed the way the C functions call each other.
Index == [headBlock |-> headBlock, tailBlock |-> tailBlock,
          prevBlock |-> prevBlock, nextBlock |-> nextBlock]

SetIndex(ix) ==
    /\ headBlock' = ix.headBlock
    /\ tailBlock' = ix.tailBlock
    /\ prevBlock' = ix.prevBlock
    /\ nextBlock' = ix.nextBlock

\* ------------------------------------------------------- list traversal
\* Blocks met from `from` following the link table `link`, at most `fuel`
\* of them (a corrupted, cyclic list would make the C loop spin forever).
RECURSIVE Follow(_, _, _, _)
Follow(link, d, from, fuel) ==
    IF from = BLOCK_NONE \/ fuel = 0
    THEN << >>
    ELSE <<from>> \o Follow(link, d, link[d][from], fuel - 1)

WalkFuel == USER_BLOCKS_PER_DIE + 1

Walk(ix, d, k) == Follow(ix.nextBlock, d, ix.headBlock[d][k], WalkFuel)
WalkBack(ix, d, k) == Follow(ix.prevBlock, d, ix.tailBlock[d][k], WalkFuel)

Members(ix, d, k) == {Walk(ix, d, k)[i] : i \in 1 .. Len(Walk(ix, d, k))}
InSomeList(ix, d, b) == \E k \in Buckets : b \in Members(ix, d, k)

Reverse(s) == [i \in 1 .. Len(s) |-> s[Len(s) + 1 - i]]

\* ------------------------------------------------------------- arithmetic
\* unsigned int / uint32_t values are pairs <<hi, lo>> of 16-bit limbs and
\* uint64_t values are 4-tuples of 16-bit limbs, most significant first, so
\* that the full width of the C types is kept and wrap-around is computed
\* exactly.
W16 == 256 * 256

U32Values == (0 .. (W16 - 1)) \X (0 .. (W16 - 1))
Zero32 == <<0, 0>>
ToU32(n) == <<(n \div W16) % W16, n % W16>>

\* a + 1 in 32 bits
IncU32(a) ==
    IF a[2] + 1 < W16 THEN <<a[1], a[2] + 1>> ELSE <<(a[1] + 1) % W16, 0>>

\* a - b in 32 bits
SubU32(a, b) ==
    LET borrow == IF a[2] < b[2] THEN 1 ELSE 0 IN
    <<(a[1] - b[1] - borrow + 2 * W16) % W16, (a[2] - b[2] + W16) % W16>>

LessU32(a, b) == a[1] < b[1] \/ (a[1] = b[1] /\ a[2] < b[2])

\* (uint64_t) a
ExtU64(a) == <<0, 0, a[1], a[2]>>

\* x * m in 64 bits, for a multiplier m below 2^15
MulU64(x, m) ==
    LET p0 == x[4] * m
        p1 == x[3] * m + (p0 \div W16)
        p2 == x[2] * m + (p1 \div W16)
        p3 == x[1] * m + (p2 \div W16)
    IN <<p3 % W16, p2 % W16, p1 % W16, p0 % W16>>

\* x / m in 64 bits (integer division), for a divisor 0 < m < 2^15
DivU64(x, m) ==
    LET q3 == x[1] \div m
        r3 == x[1] % m
        q2 == (r3 * W16 + x[2]) \div m
        r2 == (r3 * W16 + x[2]) % m
        q1 == (r2 * W16 + x[3]) \div m
        r1 == (r2 * W16 + x[3]) % m
        q0 == (r1 * W16 + x[4]) \div m
    IN <<q3, q2, q1, q0>>

\* (uint32_t) x
NarrowU32(x) == <<x[3], x[4]>>

\* --------------------------------------------------------- list routines
\* Faulty variant: the block is linked into the bucket below the one asked for.
LinkAtTail_WrongBucket(ix, dieNo, blockNo, cnt) ==
    LET k == IF cnt > 0 THEN cnt - 1 ELSE cnt
        tail == ix.tailBlock[dieNo][k]
    IN
    IF tail # BLOCK_NONE
    THEN [ix EXCEPT
            !.prevBlock[dieNo][blockNo] = tail,
            !.nextBlock[dieNo][blockNo] = BLOCK_NONE,
            !.nextBlock[dieNo][tail] = blockNo,
            !.tailBlock[dieNo][k] = blockNo]
    ELSE [ix EXCEPT
            !.prevBlock[dieNo][blockNo] = BLOCK_NONE,
            !.nextBlock[dieNo][blockNo] = BLOCK_NONE,
            !.headBlock[dieNo][k] = blockNo,
            !.tailBlock[dieNo][k] = blockNo]

\* Faulty variant: the block is pushed at the head instead of the tail.
LinkAtTail_AtHead(ix, dieNo, blockNo, cnt) ==
    LET head == ix.headBlock[dieNo][cnt] IN
    IF head # BLOCK_NONE
    THEN [ix EXCEPT
            !.nextBlock[dieNo][blockNo] = head,
            !.prevBlock[dieNo][blockNo] = BLOCK_NONE,
            !.prevBlock[dieNo][head] = blockNo,
            !.headBlock[dieNo][cnt] = blockNo]
    ELSE [ix EXCEPT
            !.prevBlock[dieNo][blockNo] = BLOCK_NONE,
            !.nextBlock[dieNo][blockNo] = BLOCK_NONE,
            !.headBlock[dieNo][cnt] = blockNo,
            !.tailBlock[dieNo][cnt] = blockNo]

\* Faulty variant: a block appended behind another keeps the nextBlock it
\* came with.
LinkAtTail_StaleNext(ix, dieNo, blockNo, cnt) ==
    LET tail == ix.tailBlock[dieNo][cnt] IN
    IF tail # BLOCK_NONE
    THEN [ix EXCEPT
            !.prevBlock[dieNo][blockNo] = tail,
            !.nextBlock[dieNo][tail] = blockNo,
            !.tailBlock[dieNo][cnt] = blockNo]
    ELSE [ix EXCEPT
            !.prevBlock[dieNo][blockNo] = BLOCK_NONE,
            !.nextBlock[dieNo][blockNo] = BLOCK_NONE,
            !.headBlock[dieNo][cnt] = blockNo,
            !.tailBlock[dieNo][cnt] = blockNo]

\* The list part of PutToGcVictimList, identical in the three builds:
\* append blockNo at the tail of bucket cnt of die dieNo.
LinkAtTail(ix, dieNo, blockNo, cnt) ==
    LET tail == ix.tailBlock[dieNo][cnt] IN
    IF tail # BLOCK_NONE
    THEN [ix EXCEPT
            !.prevBlock[dieNo][blockNo] = tail,
            !.nextBlock[dieNo][blockNo] = BLOCK_NONE,
            !.nextBlock[dieNo][tail] = blockNo,
            !.tailBlock[dieNo][cnt] = blockNo]
    ELSE [ix EXCEPT
            !.prevBlock[dieNo][blockNo] = BLOCK_NONE,
            !.nextBlock[dieNo][blockNo] = BLOCK_NONE,
            !.headBlock[dieNo][cnt] = blockNo,
            !.tailBlock[dieNo][cnt] = blockNo]

\* Faulty variant: an interior block is bypassed forwards only; its
\* successor keeps pointing back at it.
SelectiveGet_NoBackLink(ix, cntOf, dieNo, blockNo) ==
    LET nxt == ix.nextBlock[dieNo][blockNo]
        prv == ix.prevBlock[dieNo][blockNo]
        cnt == cntOf[dieNo][blockNo]
    IN
    IF nxt # BLOCK_NONE /\ prv # BLOCK_NONE
    THEN [ix EXCEPT !.nextBlock[dieNo][prv] = nxt]
    ELSE IF nxt = BLOCK_NONE /\ prv # BLOCK_NONE
    THEN [ix EXCEPT
            !.nextBlock[dieNo][prv] = BLOCK_NONE,
            !.tailBlock[dieNo][cnt] = prv]
    ELSE IF nxt # BLOCK_NONE /\ prv = BLOCK_NONE
    THEN [ix EXCEPT
            !.prevBlock[dieNo][nxt] = BLOCK_NONE,
            !.headBlock[dieNo][cnt] = nxt]
    ELSE [ix EXCEPT
            !.headBlock[dieNo][cnt] = BLOCK_NONE,
            !.tailBlock[dieNo][cnt] = BLOCK_NONE]

\* Faulty variant: removing the head leaves headBlock at the removed block.
SelectiveGet_HeadKept(ix, cntOf, dieNo, blockNo) ==
    LET nxt == ix.nextBlock[dieNo][blockNo]
        prv == ix.prevBlock[dieNo][blockNo]
        cnt == cntOf[dieNo][blockNo]
    IN
    IF nxt # BLOCK_NONE /\ prv # BLOCK_NONE
    THEN [ix EXCEPT
            !.nextBlock[dieNo][prv] = nxt,
            !.prevBlock[dieNo][nxt] = prv]
    ELSE IF nxt = BLOCK_NONE /\ prv # BLOCK_NONE
    THEN [ix EXCEPT
            !.nextBlock[dieNo][prv] = BLOCK_NONE,
            !.tailBlock[dieNo][cnt] = prv]
    ELSE IF nxt # BLOCK_NONE /\ prv = BLOCK_NONE
    THEN [ix EXCEPT !.prevBlock[dieNo][nxt] = BLOCK_NONE]
    ELSE [ix EXCEPT
            !.headBlock[dieNo][cnt] = BLOCK_NONE,
            !.tailBlock[dieNo][cnt] = BLOCK_NONE]

\* Faulty variant: removing the tail leaves tailBlock at the removed block.
SelectiveGet_TailKept(ix, cntOf, dieNo, blockNo) ==
    LET nxt == ix.nextBlock[dieNo][blockNo]
        prv == ix.prevBlock[dieNo][blockNo]
        cnt == cntOf[dieNo][blockNo]
    IN
    IF nxt # BLOCK_NONE /\ prv # BLOCK_NONE
    THEN [ix EXCEPT
            !.nextBlock[dieNo][prv] = nxt,
            !.prevBlock[dieNo][nxt] = prv]
    ELSE IF nxt = BLOCK_NONE /\ prv # BLOCK_NONE
    THEN [ix EXCEPT !.nextBlock[dieNo][prv] = BLOCK_NONE]
    ELSE IF nxt # BLOCK_NONE /\ prv = BLOCK_NONE
    THEN [ix EXCEPT
            !.prevBlock[dieNo][nxt] = BLOCK_NONE,
            !.headBlock[dieNo][cnt] = nxt]
    ELSE [ix EXCEPT
            !.headBlock[dieNo][cnt] = BLOCK_NONE,
            !.tailBlock[dieNo][cnt] = BLOCK_NONE]

\* SelectiveGetFromGcVictimList: unlink blockNo from the bucket keyed by its
\* current invalidSliceCnt.  The block's own links are left as they were.
SelectiveGetFromGcVictimList(ix, cntOf, dieNo, blockNo) ==
    LET nxt == ix.nextBlock[dieNo][blockNo]
        prv == ix.prevBlock[dieNo][blockNo]
        cnt == cntOf[dieNo][blockNo]
    IN
    IF nxt # BLOCK_NONE /\ prv # BLOCK_NONE
    THEN [ix EXCEPT
            !.nextBlock[dieNo][prv] = nxt,
            !.prevBlock[dieNo][nxt] = prv]
    ELSE IF nxt = BLOCK_NONE /\ prv # BLOCK_NONE
    THEN [ix EXCEPT
            !.nextBlock[dieNo][prv] = BLOCK_NONE,
            !.tailBlock[dieNo][cnt] = prv]
    ELSE IF nxt # BLOCK_NONE /\ prv = BLOCK_NONE
    THEN [ix EXCEPT
            !.prevBlock[dieNo][nxt] = BLOCK_NONE,
            !.headBlock[dieNo][cnt] = nxt]
    ELSE [ix EXCEPT
            !.headBlock[dieNo][cnt] = BLOCK_NONE,
            !.tailBlock[dieNo][cnt] = BLOCK_NONE]

\* DetachBlockFromGcList (Cost-Benefit and CAT builds): unlink, then clear
\* the block's own links.
DetachBlockFromGcList(ix, cntOf, dieNo, blockNo) ==
    LET u == SelectiveGetFromGcVictimList(ix, cntOf, dieNo, blockNo) IN
    [u EXCEPT
        !.nextBlock[dieNo][blockNo] = BLOCK_NONE,
        !.prevBlock[dieNo][blockNo] = BLOCK_NONE]

\* ----------------------------------------------------------------- scoring
\* The arithmetic of CalculateCostBenefitScore on the values it reads, for a
\* build with pagesPerBlock pages per block: (I * (age+1) * P) / (V + 1)
\* with a 64-bit product, narrowed to 32 bits; age+1 is formed in 32 bits
\* (unsigned int) before it is widened.
CostBenefitScore(invalidSlices, ageTicks, pagesPerBlock) ==
    LET validSlices == pagesPerBlock - invalidSlices
        benefit == MulU64(MulU64(ExtU64(IncU32(ageTicks)), invalidSlices),
                          pagesPerBlock)
        cost == validSlices + 1
    IN
    IF cost = 0 \/ benefit = <<0, 0, 0, 0>>
    THEN NarrowU32(benefit)
    ELSE NarrowU32(DivU64(benefit, cost))

\* CalculateCostBenefitScore: the values read from the block map, the clock
\* and the age table; the age is formed in 32 bits.
CalculateCostBenefitScore(cntOf, tick, last, dieNo, blockNo) ==
    CostBenefitScore(cntOf[dieNo][blockNo],
                     SubU32(tick, last[dieNo][blockNo]),
                     USER_PAGES_PER_BLOCK)

\* The arithmetic of CalculateCatScore: ((I+1) * (age+1)) / ((V+1) * (W+1)),
\* 64-bit intermediates, narrowed to 32 bits; age+1 is formed in 32 bits
\* before it is widened.
CatScore(invalidSlices, ageTicks, wearCount, pagesPerBlock) ==
    LET validSlices == pagesPerBlock - invalidSlices
        numerator == MulU64(ExtU64(IncU32(ageTicks)), invalidSlices + 1)
        denominator == (validSlices + 1) * (wearCount + 1)
    IN
    IF denominator = 0
    THEN NarrowU32(numerator)
    ELSE NarrowU32(DivU64(numerator, denominator))

\* CalculateCatScore: the values read from the block map, the clock and the
\* age table; the age is formed in 32 bits.
CalculateCatScore(cntOf, tick, last, wear, dieNo, blockNo) ==
    CatScore(cntOf[dieNo][blockNo],
             SubU32(tick, last[dieNo][blockNo]),
             wear[dieNo][blockNo],
             USER_PAGES_PER_BLOCK)

Score(pol, cntOf, tick, last, wear, dieNo, blockNo) ==
    IF pol = "CAT"
    THEN CalculateCatScore(cntOf, tick, last, wear, dieNo, blockNo)
    ELSE CalculateCostBenefitScore(cntOf, tick, last, dieNo, blockNo)

\* --------------------------------------------------------------- selection
\* Faulty variant: the bucket loop runs down to bucket 0.
RECURSIVE ScanOrder_WithBucket0(_, _, _)
ScanOrder_WithBucket0(ix, dieNo, cnt) ==
    IF cnt < 0
    THEN << >>
    ELSE Walk(ix, dieNo, cnt) \o ScanOrder_WithBucket0(ix, dieNo, cnt - 1)

\* Faulty variant: only the head of each bucket is scored.
RECURSIVE ScanOrder_HeadsOnly(_, _, _)
ScanOrder_HeadsOnly(ix, dieNo, cnt) ==
    IF cnt <= 0
    THEN << >>
    ELSE (IF ix.headBlock[dieNo][cnt] # BLOCK_NONE
          THEN <<ix.headBlock[dieNo][cnt]>> ELSE << >>)
         \o ScanOrder_HeadsOnly(ix, dieNo, cnt - 1)

\* The order in which the scoring builds visit the candidates: bucket
\* SLICES_PER_BLOCK down to bucket 1, head to tail within each bucket.
RECURSIVE ScanOrder(_, _, _)
ScanOrder(ix, dieNo, cnt) ==
    IF cnt <= 0
    THEN << >>
    ELSE Walk(ix, dieNo, cnt) \o ScanOrder(ix, dieNo, cnt - 1)

\* Faulty variant: best is replaced also on an equal score, so the last of
\* equal scorers is kept.
RECURSIVE ScanBest_OnEqual(_, _, _, _)
ScanBest_OnEqual(scoreOf, order, i, best) ==
    IF i > Len(order)
    THEN best
    ELSE LET score == scoreOf[order[i]] IN
         ScanBest_OnEqual(scoreOf, order, i + 1,
                          IF ~LessU32(score, best[2]) THEN <<order[i], score>> ELSE best)

\* The scan loop of the scoring builds: best starts as <<BLOCK_FAIL, 0>> and
\* is replaced on a strictly greater (32-bit) score.
RECURSIVE ScanBest(_, _, _, _)
ScanBest(scoreOf, order, i, best) ==
    IF i > Len(order)
    THEN best
    ELSE LET score == scoreOf[order[i]] IN
         ScanBest(scoreOf, order, i + 1,
                  IF LessU32(best[2], score) THEN <<order[i], score>> ELSE best)

\* Faulty variant: the bucket loop runs upwards and stops at the lowest
\* non-empty bucket.
HighestNonEmpty_Lowest(ix, dieNo, cnt) ==
    LET full == {k \in 1 .. cnt : ix.headBlock[dieNo][k] # BLOCK_NONE} IN
    IF full = {} THEN 0 ELSE CHOOSE k \in full : \A j \in full : k <= j

\* Greedy: the highest bucket among cnt..1 whose head is not BLOCK_NONE,
\* or 0 when there is none.
RECURSIVE HighestNonEmpty(_, _, _)
HighestNonEmpty(ix, dieNo, cnt) ==
    IF cnt <= 0
    THEN 0
    ELSE IF ix.headBlock[dieNo][cnt] # BLOCK_NONE
    THEN cnt
    ELSE HighestNonEmpty(ix, dieNo, cnt - 1)

\* Faulty variant: the pop forgets to clear prevBlock of the new head.
GreedyGet_StalePrev(ix, dieNo) ==
    LET cnt == HighestNonEmpty(ix, dieNo, SLICES_PER_BLOCK) IN
    IF cnt = 0
    THEN [ret |-> BLOCK_FAIL, ix |-> ix, asserted |-> TRUE]
    ELSE LET evictedBlockNo == ix.headBlock[dieNo][cnt]
             nxt == ix.nextBlock[dieNo][evictedBlockNo]
         IN
         [ret |-> evictedBlockNo,
          ix |-> IF nxt # BLOCK_NONE
                 THEN [ix EXCEPT !.headBlock[dieNo][cnt] = nxt]
                 ELSE [ix EXCEPT
                         !.headBlock[dieNo][cnt] = BLOCK_NONE,
                         !.tailBlock[dieNo][cnt] = BLOCK_NONE],
          asserted |-> FALSE]

\* Faulty variant: the head of the highest non-empty bucket is returned but
\* left linked.
GreedyGet_VictimKept(ix, dieNo) ==
    LET cnt == HighestNonEmpty(ix, dieNo, SLICES_PER_BLOCK) IN
    IF cnt = 0
    THEN [ret |-> BLOCK_FAIL, ix |-> ix, asserted |-> TRUE]
    ELSE [ret |-> ix.headBlock[dieNo][cnt], ix |-> ix, asserted |-> FALSE]

\* Faulty variant: the bucket loop runs down to bucket 0, so the head of
\* bucket 0 is popped when the buckets above it are empty.
GreedyGet_ScansBucket0(ix, dieNo) ==
    LET cnt == HighestNonEmpty(ix, dieNo, SLICES_PER_BLOCK) IN
    IF ix.headBlock[dieNo][cnt] = BLOCK_NONE
    THEN [ret |-> BLOCK_FAIL, ix |-> ix, asserted |-> TRUE]
    ELSE LET evictedBlockNo == ix.headBlock[dieNo][cnt]
             nxt == ix.nextBlock[dieNo][evictedBlockNo]
         IN
         [ret |-> evictedBlockNo,
          ix |-> IF nxt # BLOCK_NONE
                 THEN [ix EXCEPT
                         !.prevBlock[dieNo][nxt] = BLOCK_NONE,
                         !.headBlock[dieNo][cnt] = nxt]
                 ELSE [ix EXCEPT
                         !.headBlock[dieNo][cnt] = BLOCK_NONE,
                         !.tailBlock[dieNo][cnt] = BLOCK_NONE],
          asserted |-> FALSE]

\* Greedy GetFromGcVictimList: pop the head of the highest non-empty bucket.
\* The evicted block keeps its own nextBlock.
GreedyGetFromGcVictimList(ix, dieNo) ==
    LET cnt == HighestNonEmpty(ix, dieNo, SLICES_PER_BLOCK) IN
    IF cnt = 0
    THEN [ret |-> BLOCK_FAIL, ix |-> ix, asserted |-> TRUE]
    ELSE LET evictedBlockNo == ix.headBlock[dieNo][cnt]
             nxt == ix.nextBlock[dieNo][evictedBlockNo]
         IN
         [ret |-> evictedBlockNo,
          ix |-> IF nxt # BLOCK_NONE
                 THEN [ix EXCEPT
                         !.prevBlock[dieNo][nxt] = BLOCK_NONE,
                         !.headBlock[dieNo][cnt] = nxt]
                 ELSE [ix EXCEPT
                         !.headBlock[dieNo][cnt] = BLOCK_NONE,
                         !.tailBlock[dieNo][cnt] = BLOCK_NONE],
          asserted |-> FALSE]

\* Cost-Benefit / CAT GetFromGcVictimList: scan, then detach the best block,
\* or assert when the scan kept BLOCK_FAIL.
ScoredGetFromGcVictimList(pol, ix, cntOf, tick, last, wear, dieNo) ==
    LET scoreOf == [b \in Blocks |-> Score(pol, cntOf, tick, last, wear, dieNo, b)]
        best == ScanBest(scoreOf, ScanOrder(ix, dieNo, SLICES_PER_BLOCK), 1,
                         <<BLOCK_FAIL, Zero32>>)
        bestBlock == best[1]
    IN
    IF bestBlock # BLOCK_FAIL
    THEN [ret |-> bestBlock,
          ix |-> DetachBlockFromGcList(ix, cntOf, dieNo, bestBlock),
          asserted |-> FALSE]
    ELSE [ret |-> bestBlock, ix |-> ix, asserted |-> TRUE]

GetFromGcVictimList(pol, ix, cntOf, tick, last, wear, dieNo) ==
    IF pol = "GREEDY"
    THEN GreedyGetFromGcVictimList(ix, dieNo)
    ELSE ScoredGetFromGcVictimList(pol, ix, cntOf, tick, last, wear, dieNo)

\* --------------------------------------------------------------- migration
\* External collaborators of GarbageCollection.  EraseBlock: the block's
\* erase count grows by one, its invalid count restarts at 0 and its slices
\* are unmapped.
EraseBlock(st, dieNo, blockNo) ==
    [st EXCEPT
        !.wear[dieNo][blockNo] = @ + 1,
        !.cnt[dieNo][blockNo] = 0,
        !.v2l = [v \in Vsas |->
                   IF \E p \in Pages : v = Vorg2VsaTranslation(dieNo, blockNo, p)
                   THEN LSA_NONE ELSE st.v2l[v]],
        !.log = Append(st.log, [ev |-> "EraseBlock", die |-> dieNo, blk |-> blockNo])]

\* The liveness test of the copy loop.
IsLive(l2v, v2l, v) == v2l[v] # LSA_NONE /\ l2v[v2l[v]] = v

\* FindFreeVirtualSliceForGc: a slice of a good block of the same die,
\* outside the victim, that holds no data.
FreeSlicesForGc(good, v2l, dieNo, victimBlockNo) ==
    {Vorg2VsaTranslation(dieNo, b, p) :
        b \in {x \in Blocks \ {victimBlockNo} : <<dieNo, x>> \in good}, p \in Pages}
        \cap {v \in Vsas : v2l[v] = LSA_NONE}

\* Faulty variant: the WRITE of a live page reaches the scheduler before
\* its READ.
CopyEvents_WriteFirst(dieNo, victimBlockNo, l, v, newV) ==
    << [ev |-> "GetFromFreeReqQ", code |-> "WRITE"],
       [ev |-> "AllocateTempDataBuf", code |-> "WRITE", die |-> dieNo],
       [ev |-> "UpdateTempDataBufEntryInfoBlockingReq", code |-> "WRITE"],
       [ev |-> "FindFreeVirtualSliceForGc", die |-> dieNo, blk |-> victimBlockNo,
        vsa |-> newV],
       [ev |-> "MapUpdate", lsa |-> l, vsa |-> newV],
       [ev |-> "SelectLowLevelReqQ", code |-> "WRITE", lsa |-> l, vsa |-> newV,
        rowAddrDependencyCheck |-> TRUE],
       [ev |-> "GetFromFreeReqQ", code |-> "READ"],
       [ev |-> "AllocateTempDataBuf", code |-> "READ", die |-> dieNo],
       [ev |-> "UpdateTempDataBufEntryInfoBlockingReq", code |-> "READ"],
       [ev |-> "SelectLowLevelReqQ", code |-> "READ", lsa |-> l, vsa |-> v,
        rowAddrDependencyCheck |-> TRUE] >>

\* Faulty variant: the two mapping writes follow the hand-over of the WRITE
\* to the scheduler.
CopyEvents_MapAfterWrite(dieNo, victimBlockNo, l, v, newV) ==
    << [ev |-> "GetFromFreeReqQ", code |-> "READ"],
       [ev |-> "AllocateTempDataBuf", code |-> "READ", die |-> dieNo],
       [ev |-> "UpdateTempDataBufEntryInfoBlockingReq", code |-> "READ"],
       [ev |-> "SelectLowLevelReqQ", code |-> "READ", lsa |-> l, vsa |-> v,
        rowAddrDependencyCheck |-> TRUE],
       [ev |-> "GetFromFreeReqQ", code |-> "WRITE"],
       [ev |-> "AllocateTempDataBuf", code |-> "WRITE", die |-> dieNo],
       [ev |-> "UpdateTempDataBufEntryInfoBlockingReq", code |-> "WRITE"],
       [ev |-> "FindFreeVirtualSliceForGc", die |-> dieNo, blk |-> victimBlockNo,
        vsa |-> newV],
       [ev |-> "SelectLowLevelReqQ", code |-> "WRITE", lsa |-> l, vsa |-> newV,
        rowAddrDependencyCheck |-> TRUE],
       [ev |-> "MapUpdate", lsa |-> l, vsa |-> newV] >>

\* Faulty variant: the WRITE request carries the old slice of the victim
\* instead of the slice the allocator returned.
CopyEvents_WriteToOldSlice(dieNo, victimBlockNo, l, v, newV) ==
    << [ev |-> "GetFromFreeReqQ", code |-> "READ"],
       [ev |-> "AllocateTempDataBuf", code |-> "READ", die |-> dieNo],
       [ev |-> "UpdateTempDataBufEntryInfoBlockingReq", code |-> "READ"],
       [ev |-> "SelectLowLevelReqQ", code |-> "READ", lsa |-> l, vsa |-> v,
        rowAddrDependencyCheck |-> TRUE],
       [ev |-> "GetFromFreeReqQ", code |-> "WRITE"],
       [ev |-> "AllocateTempDataBuf", code |-> "WRITE", die |-> dieNo],
       [ev |-> "UpdateTempDataBufEntryInfoBlockingReq", code |-> "WRITE"],
       [ev |-> "FindFreeVirtualSliceForGc", die |-> dieNo, blk |-> victimBlockNo,
        vsa |-> newV],
       [ev |-> "MapUpdate", lsa |-> l, vsa |-> newV],
       [ev |-> "SelectLowLevelReqQ", code |-> "WRITE", lsa |-> l, vsa |-> v,
        rowAddrDependencyCheck |-> TRUE] >>

\* Faulty variant: the WRITE request of a page is handed over twice.
CopyEvents_WriteTwice(dieNo, victimBlockNo, l, v, newV) ==
    << [ev |-> "GetFromFreeReqQ", code |-> "READ"],
       [ev |-> "AllocateTempDataBuf", code |-> "READ", die |-> dieNo],
       [ev |-> "UpdateTempDataBufEntryInfoBlockingReq", code |-> "READ"],
       [ev |-> "SelectLowLevelReqQ", code |-> "READ", lsa |-> l, vsa |-> v,
        rowAddrDependencyCheck |-> TRUE],
       [ev |-> "GetFromFreeReqQ", code |-> "WRITE"],
       [ev |-> "AllocateTempDataBuf", code |-> "WRITE", die |-> dieNo],
       [ev |-> "UpdateTempDataBufEntryInfoBlockingReq", code |-> "WRITE"],
       [ev |-> "FindFreeVirtualSliceForGc", die |-> dieNo, blk |-> victimBlockNo,
        vsa |-> newV],
       [ev |-> "MapUpdate", lsa |-> l, vsa |-> newV],
       [ev |-> "SelectLowLevelReqQ", code |-> "WRITE", lsa |-> l, vsa |-> newV,
        rowAddrDependencyCheck |-> TRUE],
       [ev |-> "SelectLowLevelReqQ", code |-> "WRITE", lsa |-> l, vsa |-> newV,
        rowAddrDependencyCheck |-> TRUE] >>

\* The READ then WRITE of one live page, in the order of the statements.
CopyEvents(dieNo, victimBlockNo, l, v, newV) ==
    << [ev |-> "GetFromFreeReqQ", code |-> "READ"],
       [ev |-> "AllocateTempDataBuf", code |-> "READ", die |-> dieNo],
       [ev |-> "UpdateTempDataBufEntryInfoBlockingReq", code |-> "READ"],
       [ev |-> "SelectLowLevelReqQ", code |-> "READ", lsa |-> l, vsa |-> v,
        rowAddrDependencyCheck |-> TRUE],
       [ev |-> "GetFromFreeReqQ", code |-> "WRITE"],
       [ev |-> "AllocateTempDataBuf", code |-> "WRITE", die |-> dieNo],
       [ev |-> "UpdateTempDataBufEntryInfoBlockingReq", code |-> "WRITE"],
       [ev |-> "FindFreeVirtualSliceForGc", die |-> dieNo, blk |-> victimBlockNo,
        vsa |-> newV],
       [ev |-> "MapUpdate", lsa |-> l, vsa |-> newV],
       [ev |-> "SelectLowLevelReqQ", code |-> "WRITE", lsa |-> l, vsa |-> newV,
        rowAddrDependencyCheck |-> TRUE] >>

\* Faulty variant: the copy remaps the logical slice but leaves the reverse
\* entry of the destination unwritten.
CopyPage_NoReverseMap(st, dieNo, victimBlockNo, pageNo, dest) ==
    LET v == Vorg2VsaTranslation(dieNo, victimBlockNo, pageNo)
        l == st.v2l[v]
    IN
    IF l # LSA_NONE /\ st.l2v[l] = v
    THEN [st EXCEPT
            !.l2v[l] = dest[pageNo],
            !.log = st.log \o CopyEvents(dieNo, victimBlockNo, l, v, dest[pageNo])]
    ELSE st

\* Faulty variant: the request slot of the READ is taken before the
\* liveness test, so a skipped page takes a slot too.
CopyPage_SlotBeforeTest(st, dieNo, victimBlockNo, pageNo, dest) ==
    LET v == Vorg2VsaTranslation(dieNo, victimBlockNo, pageNo)
        l == st.v2l[v]
    IN
    IF l # LSA_NONE /\ st.l2v[l] = v
    THEN [st EXCEPT
            !.l2v[l] = dest[pageNo],
            !.v2l[dest[pageNo]] = l,
            !.log = st.log \o CopyEvents(dieNo, victimBlockNo, l, v, dest[pageNo])]
    ELSE [st EXCEPT
            !.log = Append(st.log, [ev |-> "GetFromFreeReqQ", code |-> "READ"])]

\* One iteration of the copy loop: a page that passes the liveness test is
\* read, written to dest[pageNo] (what the allocator returns for it) and
\* remapped; any other page is skipped.
CopyPage(st, dieNo, victimBlockNo, pageNo, dest) ==
    LET v == Vorg2VsaTranslation(dieNo, victimBlockNo, pageNo)
        l == st.v2l[v]
    IN
    IF l # LSA_NONE /\ st.l2v[l] = v
    THEN [st EXCEPT
            !.l2v[l] = dest[pageNo],
            !.v2l[dest[pageNo]] = l,
            !.log = st.log \o CopyEvents(dieNo, victimBlockNo, l, v, dest[pageNo])]
    ELSE st

\* The copy loop: pages pageNo .. USER_PAGES_PER_BLOCK-1 of the victim.
RECURSIVE CopyPages(_, _, _, _, _)
CopyPages(st, dieNo, victimBlockNo, pageNo, dest) ==
    IF pageNo >= USER_PAGES_PER_BLOCK
    THEN st
    ELSE CopyPages(CopyPage(st, dieNo, victimBlockNo, pageNo, dest),
                   dieNo, victimBlockNo, pageNo + 1, dest)

\* The states the copy loop passes through: for each page in turn, the
\* state before and after its iteration.
RECURSIVE CopyStates(_, _, _, _, _)
CopyStates(st, dieNo, victimBlockNo, pageNo, dest) ==
    IF pageNo >= USER_PAGES_PER_BLOCK
    THEN << >>
    ELSE LET after == CopyPage(st, dieNo, victimBlockNo, pageNo, dest) IN
         <<[page |-> pageNo, before |-> st, after |-> after]>>
            \o CopyStates(after, dieNo, victimBlockNo, pageNo + 1, dest)

\* What the allocator may return during one run: one distinct free slice
\* for every page of the victim that is live on entry.
DestPlans(good, l2v, v2l, dieNo, victimBlockNo) ==
    LET live == {p \in Pages :
                    IsLive(l2v, v2l, Vorg2VsaTranslation(dieNo, victimBlockNo, p))}
        free == FreeSlicesForGc(good, v2l, dieNo, victimBlockNo)
    IN {f \in [live -> free] : \A p, q \in live : p # q => f[p] # f[q]}

\* Faulty variant: the victim is erased a second time when the copy loop
\* was skipped.
CollectVictim_ErasesTwice(pol, st, tick, last, dieNo, victimBlockNo, dest) ==
    LET copied == IF st.cnt[dieNo][victimBlockNo] # SLICES_PER_BLOCK
                  THEN CopyPages(st, dieNo, victimBlockNo, 0, dest)
                  ELSE EraseBlock(st, dieNo, victimBlockNo)
        erased == EraseBlock(copied, dieNo, victimBlockNo)
    IN [st |-> erased,
        last |-> IF pol = "GREEDY"
                 THEN last
                 ELSE [last EXCEPT ![dieNo][victimBlockNo] = tick]]

\* Faulty variant: the copy loop starts at page 1, so page 0 of the victim
\* is never examined.
CollectVictim_FromPageOne(pol, st, tick, last, dieNo, victimBlockNo, dest) ==
    LET copied == IF st.cnt[dieNo][victimBlockNo] # SLICES_PER_BLOCK
                  THEN CopyPages(st, dieNo, victimBlockNo, 1, dest)
                  ELSE st
        erased == EraseBlock(copied, dieNo, victimBlockNo)
    IN [st |-> erased,
        last |-> IF pol = "GREEDY"
                 THEN last
                 ELSE [last EXCEPT ![dieNo][victimBlockNo] = tick]]

\* Faulty variant: the run ends without resetting the victim's age baseline.
CollectVictim_NoBaseline(pol, st, tick, last, dieNo, victimBlockNo, dest) ==
    LET copied == IF st.cnt[dieNo][victimBlockNo] # SLICES_PER_BLOCK
                  THEN CopyPages(st, dieNo, victimBlockNo, 0, dest)
                  ELSE st
        erased == EraseBlock(copied, dieNo, victimBlockNo)
    IN [st |-> erased,
        last |-> last]

\* Faulty variant: the copy loop is skipped for every victim.
CollectVictim_SkipsCopy(pol, st, tick, last, dieNo, victimBlockNo, dest) ==
    LET erased == EraseBlock(st, dieNo, victimBlockNo)
    IN [st |-> erased,
        last |-> IF pol = "GREEDY"
                 THEN last
                 ELSE [last EXCEPT ![dieNo][victimBlockNo] = tick]]

\* The body of GarbageCollection after the victim has been selected.
CollectVictim(pol, st, tick, last, dieNo, victimBlockNo, dest) ==
    LET copied == IF st.cnt[dieNo][victimBlockNo] # SLICES_PER_BLOCK
                  THEN CopyPages(st, dieNo, victimBlockNo, 0, dest)
                  ELSE st
        erased == EraseBlock(copied, dieNo, victimBlockNo)
    IN [st |-> erased,
        last |-> IF pol = "GREEDY"
                 THEN last
                 ELSE [last EXCEPT ![dieNo][victimBlockNo] = tick]]

\* The bad-block layouts explored: a die with every block good beside a die
\* with none, and a die with one bad block beside a die with one good block.
GoodBlockMaps ==
    { {<<0, b>> : b \in Blocks},
      {<<0, b>> : b \in Blocks \ {USER_BLOCKS_PER_DIE - 1}} \cup {<<USER_DIES - 1, 0>>} }

\* ------------------------------------------------------------------- Init
\* The state after InitGcVictimMap on a freshly booted device: every bucket
\* empty, clock and age table zero, no block linked, nothing mapped.
Init ==
    /\ policy \in Policies
    /\ goodBlocks \in GoodBlockMaps
    /\ headBlock = [d \in Dies |-> [k \in Buckets |-> BLOCK_NONE]]
    /\ tailBlock = [d \in Dies |-> [k \in Buckets |-> BLOCK_NONE]]
    /\ prevBlock = [d \in Dies |-> [b \in Blocks |-> BLOCK_NONE]]
    /\ nextBlock = [d \in Dies |-> [b \in Blocks |-> BLOCK_NONE]]
    /\ invalidSliceCnt = [d \in Dies |-> [b \in Blocks |-> 0]]
    /\ eraseCnt = [d \in Dies |-> [b \in Blocks |-> 0]]
    /\ gcActivityTick = Zero32
    /\ gcLastTick = [d \in Dies |-> [b \in Blocks |-> Zero32]]
    /\ logicalSliceMap = [l \in Lsas |-> VSA_NONE]
    /\ virtualSliceMap = [v \in Vsas |-> LSA_NONE]
    /\ reqLog = << >>
    /\ pending = << >>
    /\ fault = FALSE
    /\ lastOp = [op |-> "InitGcVictimMap", die |-> 0, blk |-> BLOCK_NONE]

\* ---------------------------------------------------------------- actions
\* Faulty variant: the clock advances on every call, whatever the count.
PutToGcVictimList_AlwaysTicks(dieNo, blockNo, cnt) ==
    LET tick == IncU32(gcActivityTick) IN
    /\ gcActivityTick' = tick
    /\ gcLastTick' = IF cnt # 0 /\ policy = "CAT"
                     THEN [gcLastTick EXCEPT ![dieNo][blockNo] = tick]
                     ELSE gcLastTick
    /\ SetIndex(LinkAtTail(Index, dieNo, blockNo, cnt))
    /\ lastOp' = [op |-> "PutToGcVictimList", die |-> dieNo, blk |-> blockNo]
    /\ reqLog' = << >>
    /\ UNCHANGED <<policy, goodBlocks, invalidSliceCnt, eraseCnt, logicalSliceMap,
                   virtualSliceMap, fault>>

\* Faulty variant: the CAT build pushes the block at the head of its bucket.
PutEffect_CatAtHead(pol, ix, tick, last, dieNo, blockNo, cnt) ==
    LET bump == cnt # 0 /\ pol # "GREEDY"
        t == IF bump THEN IncU32(tick) ELSE tick
    IN [ix |-> IF pol = "CAT"
               THEN LinkAtTail_AtHead(ix, dieNo, blockNo, cnt)
               ELSE LinkAtTail(ix, dieNo, blockNo, cnt),
        tick |-> t,
        last |-> IF bump /\ pol = "CAT"
                 THEN [last EXCEPT ![dieNo][blockNo] = t]
                 ELSE last]

\* Faulty variant: the scoring builds advance the clock on every call,
\* whatever the count.
PutEffect_AlwaysTicks(pol, ix, tick, last, dieNo, blockNo, cnt) ==
    LET t == IF pol # "GREEDY" THEN IncU32(tick) ELSE tick
    IN [ix |-> LinkAtTail(ix, dieNo, blockNo, cnt),
        tick |-> t,
        last |-> IF cnt # 0 /\ pol = "CAT"
                 THEN [last EXCEPT ![dieNo][blockNo] = t]
                 ELSE last]

\* Faulty variant: the Cost-Benefit build stamps the block on Put as the
\* CAT build does.
PutEffect_CbStamps(pol, ix, tick, last, dieNo, blockNo, cnt) ==
    LET bump == cnt # 0 /\ pol # "GREEDY"
        t == IF bump THEN IncU32(tick) ELSE tick
    IN [ix |-> LinkAtTail(ix, dieNo, blockNo, cnt),
        tick |-> t,
        last |-> IF bump
                 THEN [last EXCEPT ![dieNo][blockNo] = t]
                 ELSE last]

\* What PutToGcVictimList of build pol does to the index, the clock and the
\* age table: the scoring builds advance the clock when the count is not 0,
\* CAT then stamps the block; the list statements are the same in the three
\* files.
PutEffect(pol, ix, tick, last, dieNo, blockNo, cnt) ==
    LET bump == cnt # 0 /\ pol # "GREEDY"
        t == IF bump THEN IncU32(tick) ELSE tick
    IN [ix |-> LinkAtTail(ix, dieNo, blockNo, cnt),
        tick |-> t,
        last |-> IF bump /\ pol = "CAT"
                 THEN [last EXCEPT ![dieNo][blockNo] = t]
                 ELSE last]

\* PutToGcVictimList(dieNo, blockNo, invalidSliceCnt).  The scoring builds
\* advance the clock when the count is not 0; CAT also stamps the block.
PutToGcVictimList(dieNo, blockNo, cnt) ==
    LET r == PutEffect(policy, Index, gcActivityTick, gcLastTick, dieNo, blockNo, cnt)
    IN
    /\ gcActivityTick' = r.tick
    /\ gcLastTick' = r.last
    /\ SetIndex(r.ix)
    /\ lastOp' = [op |-> "PutToGcVictimList", die |-> dieNo, blk |-> blockNo]
    /\ reqLog' = << >>
    /\ UNCHANGED <<policy, goodBlocks, invalidSliceCnt, eraseCnt, logicalSliceMap,
                   virtualSliceMap, fault>>

\* The host-write path may change the count of a block, and put it, when it
\* has just detached that block, or when it has nothing detached and the
\* block is in no list (a free, open or just-selected block).
HostHolds(dieNo, blockNo) ==
    \/ pending = <<dieNo, blockNo>>
    \/ pending = << >> /\ ~InSomeList(Index, dieNo, blockNo)

\* The caller's side of Put: the block is in no list, the count passed is
\* the block's invalidSliceCnt.
Put(dieNo, blockNo) ==
    /\ ~fault
    /\ <<dieNo, blockNo>> \in goodBlocks
    /\ HostHolds(dieNo, blockNo)
    /\ (invalidSliceCnt[dieNo][blockNo] # 0 /\ policy # "GREEDY")
          => gcActivityTick # ToU32(MaxTick)
    /\ PutToGcVictimList(dieNo, blockNo, invalidSliceCnt[dieNo][blockNo])
    /\ pending' = << >>

\* The public SelectiveGetFromGcVictimList(dieNo, blockNo), called by the
\* host-write path on a block that sits in the bucket of its count.
Detach(dieNo, blockNo) ==
    /\ ~fault
    /\ pending = << >>
    /\ blockNo \in Members(Index, dieNo, invalidSliceCnt[dieNo][blockNo])
    /\ pending' = <<dieNo, blockNo>>
    /\ SetIndex(SelectiveGetFromGcVictimList(Index, invalidSliceCnt, dieNo, blockNo))
    /\ lastOp' = [op |-> "SelectiveGetFromGcVictimList", die |-> dieNo,
                  blk |-> blockNo]
    /\ reqLog' = << >>
    /\ UNCHANGED <<policy, goodBlocks, invalidSliceCnt, eraseCnt, gcActivityTick, gcLastTick,
                   logicalSliceMap, virtualSliceMap, fault>>

\* The host-write path marks one more slice of a block stale; it does so
\* only while the block is in no list, and puts the block back before
\* anything else runs.
HostInvalidate(dieNo, blockNo) ==
    /\ ~fault
    /\ <<dieNo, blockNo>> \in goodBlocks
    /\ HostHolds(dieNo, blockNo)
    /\ invalidSliceCnt[dieNo][blockNo] < SLICES_PER_BLOCK
    /\ invalidSliceCnt' = [invalidSliceCnt EXCEPT ![dieNo][blockNo] = @ + 1]
    /\ pending' = <<dieNo, blockNo>>
    /\ lastOp' = [op |-> "HostInvalidate", die |-> dieNo, blk |-> blockNo]
    /\ reqLog' = << >>
    /\ UNCHANGED <<policy, goodBlocks, headBlock, tailBlock, prevBlock, nextBlock, eraseCnt,
                   gcActivityTick, gcLastTick, logicalSliceMap, virtualSliceMap,
                   fault>>

\* Erases issued so far, over all dies.
RECURSIVE SumOver(_, _)
SumOver(f, S) ==
    IF S = {} THEN 0
    ELSE LET x == CHOOSE y \in S : TRUE IN f[x] + SumOver(f, S \ {x})

TotalErases == SumOver([d \in Dies |-> SumOver(eraseCnt[d], Blocks)], Dies)

\* What GetFromGcVictimList(dieNo) yields in the current state.
Selected(dieNo) ==
    GetFromGcVictimList(policy, Index, invalidSliceCnt, gcActivityTick,
                        gcLastTick, eraseCnt, dieNo)

\* A call of GetFromGcVictimList(dieNo) on its own.
GetVictim(dieNo) ==
    /\ ~fault
    /\ pending = << >>
    /\ LET g == Selected(dieNo) IN
       /\ SetIndex(g.ix)
       /\ fault' = g.asserted
       /\ lastOp' = [op |-> "GetFromGcVictimList", die |-> dieNo, blk |-> g.ret]
    /\ reqLog' = << >>
    /\ UNCHANGED <<policy, goodBlocks, invalidSliceCnt, eraseCnt, gcActivityTick, gcLastTick,
                   logicalSliceMap, virtualSliceMap, pending>>

\* GarbageCollection(dieNo): select, copy the live pages, erase, reset the
\* victim's age baseline.  When the selection asserts nothing else happens.
GarbageCollection(dieNo) ==
    /\ ~fault
    /\ pending = << >>
    /\ LET g == Selected(dieNo) IN
       IF g.asserted
       THEN /\ fault' = TRUE
            /\ lastOp' = [op |-> "GarbageCollection", die |-> dieNo, blk |-> g.ret]
            /\ reqLog' = << >>
            /\ UNCHANGED <<headBlock, tailBlock, prevBlock, nextBlock,
                           invalidSliceCnt, eraseCnt, gcLastTick,
                           logicalSliceMap, virtualSliceMap>>
       ELSE /\ TotalErases < MaxErase
            /\ \E dest \in DestPlans(goodBlocks, logicalSliceMap, virtualSliceMap,
                                      dieNo, g.ret) :
                 LET r == CollectVictim(policy,
                                        [cnt |-> invalidSliceCnt, wear |-> eraseCnt,
                                         l2v |-> logicalSliceMap,
                                         v2l |-> virtualSliceMap, log |-> << >>],
                                        gcActivityTick, gcLastTick, dieNo, g.ret, dest)
                 IN
                 /\ SetIndex(g.ix)
                 /\ invalidSliceCnt' = r.st.cnt
                 /\ eraseCnt' = r.st.wear
                 /\ logicalSliceMap' = r.st.l2v
                 /\ virtualSliceMap' = r.st.v2l
                 /\ reqLog' = r.st.log
                 /\ gcLastTick' = r.last
                 /\ fault' = FALSE
                 /\ lastOp' = [op |-> "GarbageCollection", die |-> dieNo,
                               blk |-> g.ret]
    /\ UNCHANGED <<policy, goodBlocks, gcActivityTick, pending>>

Next ==
    \/ \E d \in Dies, b \in Blocks : Put(d, b)
    \/ \E d \in Dies, b \in Blocks : Detach(d, b)
    \/ \E d \in Dies, b \in Blocks : HostInvalidate(d, b)
    \/ \E d \in Dies : GetVictim(d)
    \/ \E d \in Dies : GarbageCollection(d)

Spec == Init /\ [][Next]_vars

\* ------------------------------------------------- detach of a non-member
\* The index driven by a caller that also calls the public
\* SelectiveGetFromGcVictimList on a block that is in no list and whose own
\* links are BLOCK_NONE (an open block, a block just selected): the function
\* has no membership test of its own.
DetachOutside(dieNo, blockNo) ==
    /\ ~fault
    /\ pending = << >>
    /\ <<dieNo, blockNo>> \in goodBlocks
    /\ ~InSomeList(Index, dieNo, blockNo)
    /\ prevBlock[dieNo][blockNo] = BLOCK_NONE
    /\ nextBlock[dieNo][blockNo] = BLOCK_NONE
    /\ pending' = <<dieNo, blockNo>>
    /\ SetIndex(SelectiveGetFromGcVictimList(Index, invalidSliceCnt, dieNo, blockNo))
    /\ lastOp' = [op |-> "SelectiveGetFromGcVictimList", die |-> dieNo,
                  blk |-> blockNo]
    /\ reqLog' = << >>
    /\ UNCHANGED <<policy, goodBlocks, invalidSliceCnt, eraseCnt, gcActivityTick, gcLastTick,
                   logicalSliceMap, virtualSliceMap, fault>>

NextStray ==
    \/ \E d \in Dies, b \in Blocks : Put(d, b)
    \/ \E d \in Dies, b \in Blocks : Detach(d, b)
    \/ \E d \in Dies, b \in Blocks : HostInvalidate(d, b)
    \/ \E d \in Dies, b \in Blocks : DetachOutside(d, b)

SpecStray == Init /\ [][NextStray]_vars

\* ------------------------------------------------------- host data path
\* The collector with data on the device.  The host-write path (outside
\* src/) maps a logical slice to a free virtual slice, and invalidates the
\* slice a logical slice was mapped to: it takes the block off its list if
\* it is on one, counts one more invalid slice, unmaps the logical slice and
\* puts the block back.
Vsa2VdieTranslation(v) == v % USER_DIES
Vsa2VblockTranslation(v) == (v \div USER_DIES) \div SLICES_PER_BLOCK

\* The free slices of a block.
FreePages(v2l, dieNo, blockNo) ==
    {p \in Pages : v2l[Vorg2VsaTranslation(dieNo, blockNo, p)] = LSA_NONE}

\* The host's allocator: the lowest free page of the lowest good block of
\* the die that has one.
HostWrite(l, dieNo, blockNo) ==
    /\ ~fault
    /\ pending = << >>
    /\ <<dieNo, blockNo>> \in goodBlocks
    /\ logicalSliceMap[l] = VSA_NONE
    /\ FreePages(virtualSliceMap, dieNo, blockNo) # {}
    /\ \A b \in Blocks :
          (b < blockNo /\ <<dieNo, b>> \in goodBlocks)
             => FreePages(virtualSliceMap, dieNo, b) = {}
    /\ LET free == FreePages(virtualSliceMap, dieNo, blockNo)
           p == CHOOSE x \in free : \A y \in free : x <= y
           v == Vorg2VsaTranslation(dieNo, blockNo, p)
       IN
       /\ logicalSliceMap' = [logicalSliceMap EXCEPT ![l] = v]
       /\ virtualSliceMap' = [virtualSliceMap EXCEPT ![v] = l]
    /\ lastOp' = [op |-> "HostWrite", die |-> dieNo, blk |-> blockNo]
    /\ reqLog' = << >>
    /\ UNCHANGED <<policy, goodBlocks, headBlock, tailBlock, prevBlock, nextBlock,
                   invalidSliceCnt, eraseCnt, gcActivityTick, gcLastTick,
                   pending, fault>>

\* The first half of the invalidation of logical slice l's old copy: its
\* block is taken off the list it is on (if it is on one), the block's count
\* grows and l is unmapped.
InvalidateOldVsa(l) ==
    /\ ~fault
    /\ pending = << >>
    /\ logicalSliceMap[l] # VSA_NONE
    /\ LET v == logicalSliceMap[l]
           dieNo == Vsa2VdieTranslation(v)
           blockNo == Vsa2VblockTranslation(v)
       IN
       /\ virtualSliceMap[v] = l
       /\ SetIndex(IF blockNo \in Members(Index, dieNo, invalidSliceCnt[dieNo][blockNo])
                   THEN SelectiveGetFromGcVictimList(Index, invalidSliceCnt, dieNo, blockNo)
                   ELSE Index)
       /\ invalidSliceCnt' = [invalidSliceCnt EXCEPT ![dieNo][blockNo] = @ + 1]
       /\ logicalSliceMap' = [logicalSliceMap EXCEPT ![l] = VSA_NONE]
       /\ pending' = <<dieNo, blockNo>>
       /\ lastOp' = [op |-> "InvalidateOldVsa", die |-> dieNo, blk |-> blockNo]
    /\ reqLog' = << >>
    /\ UNCHANGED <<policy, goodBlocks, eraseCnt, gcActivityTick, gcLastTick,
                   virtualSliceMap, fault>>

\* The end of the invalidation: the block goes back on the list of its count.
HostPut(dieNo, blockNo) ==
    /\ pending = <<dieNo, blockNo>>
    /\ Put(dieNo, blockNo)

NextGc ==
    \/ \E l \in Lsas, d \in Dies, b \in Blocks : HostWrite(l, d, b)
    \/ \E l \in Lsas : InvalidateOldVsa(l)
    \/ \E d \in Dies, b \in Blocks : HostPut(d, b)
    \/ \E d \in Dies : GarbageCollection(d)

\* The device explored with data: two good blocks on die 0, so that a
\* victim's live pages have another block to go to.
InitGc ==
    /\ policy \in Policies
    /\ goodBlocks = {<<0, 0>>, <<0, 1>>}
    /\ headBlock = [d \in Dies |-> [k \in Buckets |-> BLOCK_NONE]]
    /\ tailBlock = [d \in Dies |-> [k \in Buckets |-> BLOCK_NONE]]
    /\ prevBlock = [d \in Dies |-> [b \in Blocks |-> BLOCK_NONE]]
    /\ nextBlock = [d \in Dies |-> [b \in Blocks |-> BLOCK_NONE]]
    /\ invalidSliceCnt = [d \in Dies |-> [b \in Blocks |-> 0]]
    /\ eraseCnt = [d \in Dies |-> [b \in Blocks |-> 0]]
    /\ gcActivityTick = Zero32
    /\ gcLastTick = [d \in Dies |-> [b \in Blocks |-> Zero32]]
    /\ logicalSliceMap = [l \in Lsas |-> VSA_NONE]
    /\ virtualSliceMap = [v \in Vsas |-> LSA_NONE]
    /\ reqLog = << >>
    /\ pending = << >>
    /\ fault = FALSE
    /\ lastOp = [op |-> "InitGcVictimMap", die |-> 0, blk |-> BLOCK_NONE]

SpecGc == InitGc /\ [][NextGc]_vars

\* ------------------------------------------------------------ clock lap
\* The scoring builds around the point where the uint32_t activity clock
\* goes round.  The lapped initial state is the one reached from
\* InitGcVictimMap by invalidating one slice of block 0 of die 0 and then
\* repeating PutToGcVictimList(0, 0, 1); GetFromGcVictimList(0) 2^32 - 1
\* times: the index is empty again, the block is unlinked with its links
\* cleared, the clock shows 2^32 - 1 (and so does the block's stamp in the
\* CAT build).  The fresh initial state is kept beside it.
Max32 == <<W16 - 1, W16 - 1>>

ClockLap == 1

ClockValues == {Max32} \cup {ToU32(i) : i \in 0 .. ClockLap}

InitClock ==
    /\ policy \in {"COST_BENEFIT", "CAT"}
    /\ goodBlocks \in GoodBlockMaps
    /\ headBlock = [d \in Dies |-> [k \in Buckets |-> BLOCK_NONE]]
    /\ tailBlock = [d \in Dies |-> [k \in Buckets |-> BLOCK_NONE]]
    /\ prevBlock = [d \in Dies |-> [b \in Blocks |-> BLOCK_NONE]]
    /\ nextBlock = [d \in Dies |-> [b \in Blocks |-> BLOCK_NONE]]
    /\ eraseCnt = [d \in Dies |-> [b \in Blocks |-> 0]]
    /\ \E lapped \in BOOLEAN :
          /\ invalidSliceCnt = [d \in Dies |-> [b \in Blocks |->
                                   IF lapped /\ d = 0 /\ b = 0 THEN 1 ELSE 0]]
          /\ gcActivityTick = IF lapped THEN Max32 ELSE Zero32
          /\ gcLastTick = [d \in Dies |-> [b \in Blocks |->
                              IF lapped /\ policy = "CAT" /\ d = 0 /\ b = 0
                              THEN Max32 ELSE Zero32]]
    /\ logicalSliceMap = [l \in Lsas |-> VSA_NONE]
    /\ virtualSliceMap = [v \in Vsas |-> LSA_NONE]
    /\ reqLog = << >>
    /\ pending = << >>
    /\ fault = FALSE
    /\ lastOp = [op |-> "InitGcVictimMap", die |-> 0, blk |-> BLOCK_NONE]

\* Put is followed only while the clock stays among ClockValues.
ClockPut(dieNo, blockNo) ==
    /\ (invalidSliceCnt[dieNo][blockNo] # 0) => IncU32(gcActivityTick) \in ClockValues
    /\ Put(dieNo, blockNo)

NextClock ==
    \/ \E d \in Dies, b \in Blocks : ClockPut(d, b)
    \/ \E d \in Dies, b \in Blocks : Detach(d, b)
    \/ \E d \in Dies, b \in Blocks : HostInvalidate(d, b)
    \/ \E d \in Dies : GetVictim(d)
    \/ \E d \in Dies : GarbageCollection(d)

SpecClock == InitClock /\ [][NextClock]_vars

\* ------------------------------------------------------- wear comparison
\* Selection in the CAT build applied to a die holding exactly two
\* candidates with the same invalid count and the same age stamp.  Put
\* stamps each candidate with a fresh clock value, so two stamps coincide
\* only once the unsigned 32-bit clock has gone round (2^32 Puts with a
\* non-zero count); the states are enumerated directly.
MaxWear == 2

InitWear ==
    \E a \in Blocks, b \in Blocks, cnt \in 1 .. SLICES_PER_BLOCK,
       wa \in 0 .. MaxWear, wb \in 0 .. MaxWear, t \in 0 .. MaxTick, s \in 0 .. MaxTick :
        /\ a # b
        /\ wa # wb
        /\ s <= t
        /\ policy = "CAT"
        /\ goodBlocks = {<<0, x>> : x \in Blocks}
        /\ headBlock = [d \in Dies |-> [k \in Buckets |->
                            IF d = 0 /\ k = cnt THEN a ELSE BLOCK_NONE]]
        /\ tailBlock = [d \in Dies |-> [k \in Buckets |->
                            IF d = 0 /\ k = cnt THEN b ELSE BLOCK_NONE]]
        /\ prevBlock = [d \in Dies |-> [x \in Blocks |->
                            IF d = 0 /\ x = b THEN a ELSE BLOCK_NONE]]
        /\ nextBlock = [d \in Dies |-> [x \in Blocks |->
                            IF d = 0 /\ x = a THEN b ELSE BLOCK_NONE]]
        /\ invalidSliceCnt = [d \in Dies |-> [x \in Blocks |->
                            IF d = 0 /\ x \in {a, b} THEN cnt ELSE 0]]
        /\ eraseCnt = [d \in Dies |-> [x \in Blocks |->
                            IF d = 0 /\ x = a THEN wa
                            ELSE IF d = 0 /\ x = b THEN wb ELSE 0]]
        /\ gcActivityTick = ToU32(t)
        /\ gcLastTick = [d \in Dies |-> [x \in Blocks |->
                            IF d = 0 /\ x \in {a, b} THEN ToU32(s) ELSE Zero32]]
        /\ logicalSliceMap = [l \in Lsas |-> VSA_NONE]
        /\ virtualSliceMap = [v \in Vsas |-> LSA_NONE]
        /\ reqLog = << >>
        /\ pending = << >>
        /\ fault = FALSE
        /\ lastOp = [op |-> "InitGcVictimMap", die |-> 0, blk |-> BLOCK_NONE]

NextWear == \E d \in Dies : GetVictim(d)

SpecWear == InitWear /\ [][NextWear]_vars

\* ------------------------------------------------------------- score values
\* The two score functions applied to one block of die 0 whose invalid
\* count, erase count and age stamp, and the clock, are drawn from small
\* sets that include the ends of the 32-bit range; the block stands in the
\* bucket of its count.  USER_PAGES_PER_BLOCK is a constant of the build:
\* the function is applied as compiled for each geometry of BuildPages.
ScoreTicks ==
    {Zero32, <<0, W16 - 1>>, <<1, 0>>, Max32} \cup {ToU32(i) : i \in 1 .. MaxTick}

BuildPages == {USER_PAGES_PER_BLOCK, USER_PAGES_PER_BLOCK + 1, 128}

InitScore ==
    \E cnt \in 0 .. SLICES_PER_BLOCK, w \in 0 .. MaxWear,
       t \in ScoreTicks, s \in ScoreTicks :
        /\ policy \in {"COST_BENEFIT", "CAT"}
        /\ goodBlocks = {<<0, x>> : x \in Blocks}
        /\ headBlock = [d \in Dies |-> [k \in Buckets |->
                            IF d = 0 /\ k = cnt THEN 0 ELSE BLOCK_NONE]]
        /\ tailBlock = headBlock
        /\ prevBlock = [d \in Dies |-> [x \in Blocks |-> BLOCK_NONE]]
        /\ nextBlock = [d \in Dies |-> [x \in Blocks |-> BLOCK_NONE]]
        /\ invalidSliceCnt = [d \in Dies |-> [x \in Blocks |->
                                 IF d = 0 /\ x = 0 THEN cnt ELSE 0]]
        /\ eraseCnt = [d \in Dies |-> [x \in Blocks |->
                          IF d = 0 /\ x = 0 THEN w ELSE 0]]
        /\ gcActivityTick = t
        /\ gcLastTick = [d \in Dies |-> [x \in Blocks |->
                            IF d = 0 /\ x = 0 THEN s ELSE Zero32]]
        /\ logicalSliceMap = [l \in Lsas |-> VSA_NONE]
        /\ virtualSliceMap = [v \in Vsas |-> LSA_NONE]
        /\ reqLog = << >>
        /\ pending = << >>
        /\ fault = FALSE
        /\ lastOp = [op |-> "InitGcVictimMap", die |-> 0, blk |-> BLOCK_NONE]

\* One call of the build's score function on block blockNo of die dieNo; the
\* values it read and the value it returned are logged.
CalculateScore(dieNo, blockNo, pagesPerBlock) ==
    /\ ~fault
    /\ reqLog = << >>
    /\ headBlock[dieNo][invalidSliceCnt[dieNo][blockNo]] = blockNo
    /\ LET invalidSlices == invalidSliceCnt[dieNo][blockNo]
           ageTicks == SubU32(gcActivityTick, gcLastTick[dieNo][blockNo])
           wearCount == eraseCnt[dieNo][blockNo]
       IN reqLog' = << [ev |-> "CalculateScore",
                        pages |-> pagesPerBlock,
                        invalid |-> invalidSlices,
                        age |-> ageTicks,
                        wear |-> wearCount,
                        ret |-> IF policy = "CAT"
                                THEN CatScore(invalidSlices, ageTicks, wearCount,
                                              pagesPerBlock)
                                ELSE CostBenefitScore(invalidSlices, ageTicks,
                                                      pagesPerBlock)] >>
    /\ lastOp' = [op |-> "CalculateScore", die |-> dieNo, blk |-> blockNo]
    /\ UNCHANGED <<policy, goodBlocks, headBlock, tailBlock, prevBlock, nextBlock,
                   invalidSliceCnt, eraseCnt, gcActivityTick, gcLastTick,
                   logicalSliceMap, virtualSliceMap, pending, fault>>

NextScore == \E d \in Dies, b \in Blocks, p \in BuildPages : CalculateScore(d, b, p)

SpecScore == InitScore /\ [][NextScore]_vars

\* ------------------------------------------------------ re-initialisation
\* InitGcVictimMap called again on a device that has been running: the
\* block table (links, counts, erase counts) and the mapping tables belong
\* to other modules and are left as they are.

\* Faulty variant: the loop over the buckets stops one short, so the bucket
\* of fully invalid blocks is not emptied.
InitGcVictimMap_SkipsLastBucket ==
    /\ ~fault
    /\ pending = << >>
    /\ headBlock' = [d \in Dies |-> [k \in Buckets |->
                        IF k < SLICES_PER_BLOCK THEN BLOCK_NONE ELSE headBlock[d][k]]]
    /\ tailBlock' = [d \in Dies |-> [k \in Buckets |->
                        IF k < SLICES_PER_BLOCK THEN BLOCK_NONE ELSE tailBlock[d][k]]]
    /\ gcActivityTick' = IF policy = "GREEDY" THEN gcActivityTick ELSE Zero32
    /\ gcLastTick' = IF policy = "GREEDY"
                     THEN gcLastTick
                     ELSE [d \in Dies |-> [b \in Blocks |-> Zero32]]
    /\ lastOp' = [op |-> "InitGcVictimMap", die |-> 0, blk |-> BLOCK_NONE]
    /\ reqLog' = << >>
    /\ UNCHANGED <<policy, goodBlocks, prevBlock, nextBlock, invalidSliceCnt,
                   eraseCnt, logicalSliceMap, virtualSliceMap, pending, fault>>

\* InitGcVictimMap(): every bucket of every die gets headBlock = tailBlock =
\* BLOCK_NONE; the scoring builds also zero the clock and their age table
\* (the Greedy build has neither).
InitGcVictimMap ==
    /\ ~fault
    /\ pending = << >>
    /\ headBlock' = [d \in Dies |-> [k \in Buckets |-> BLOCK_NONE]]
    /\ tailBlock' = [d \in Dies |-> [k \in Buckets |-> BLOCK_NONE]]
    /\ gcActivityTick' = IF policy = "GREEDY" THEN gcActivityTick ELSE Zero32
    /\ gcLastTick' = IF policy = "GREEDY"
                     THEN gcLastTick
                     ELSE [d \in Dies |-> [b \in Blocks |-> Zero32]]
    /\ lastOp' = [op |-> "InitGcVictimMap", die |-> 0, blk |-> BLOCK_NONE]
    /\ reqLog' = << >>
    /\ UNCHANGED <<policy, goodBlocks, prevBlock, nextBlock, invalidSliceCnt,
                   eraseCnt, logicalSliceMap, virtualSliceMap, pending, fault>>

\* The layout with good blocks on two dies.
InitReinit ==
    /\ Init
    /\ \E d \in Dies \ {0} : <<d, 0>> \in goodBlocks

\* The host-write path and the collector, with InitGcVictimMap callable
\* between any two of their calls.
NextReinit ==
    \/ \E d \in Dies, b \in Blocks : Put(d, b)
    \/ \E d \in Dies, b \in Blocks : Detach(d, b)
    \/ \E d \in Dies, b \in Blocks : HostInvalidate(d, b)
    \/ \E d \in Dies : GarbageCollection(d)
    \/ InitGcVictimMap

SpecReinit == InitReinit /\ [][NextReinit]_vars

\* ------------------------------------------------------ builds side by side
\* The Greedy, Cost-Benefit and CAT builds driven by one caller: every call
\* of PutToGcVictimList and SelectiveGetFromGcVictimList is made on the three
\* of them with the same arguments.  Here the index, clock and age-table
\* variables hold one table per build; the counts are the caller's.
BuildIndex(p) == [headBlock |-> headBlock[p], tailBlock |-> tailBlock[p],
                  prevBlock |-> prevBlock[p], nextBlock |-> nextBlock[p]]

InitBuilds ==
    /\ policy = "ALL"
    /\ goodBlocks \in GoodBlockMaps
    /\ headBlock = [p \in Policies |-> [d \in Dies |-> [k \in Buckets |-> BLOCK_NONE]]]
    /\ tailBlock = [p \in Policies |-> [d \in Dies |-> [k \in Buckets |-> BLOCK_NONE]]]
    /\ prevBlock = [p \in Policies |-> [d \in Dies |-> [b \in Blocks |-> BLOCK_NONE]]]
    /\ nextBlock = [p \in Policies |-> [d \in Dies |-> [b \in Blocks |-> BLOCK_NONE]]]
    /\ invalidSliceCnt = [d \in Dies |-> [b \in Blocks |-> 0]]
    /\ eraseCnt = [d \in Dies |-> [b \in Blocks |-> 0]]
    /\ gcActivityTick = [p \in Policies |-> Zero32]
    /\ gcLastTick = [p \in Policies |-> [d \in Dies |-> [b \in Blocks |-> Zero32]]]
    /\ logicalSliceMap = [l \in Lsas |-> VSA_NONE]
    /\ virtualSliceMap = [v \in Vsas |-> LSA_NONE]
    /\ reqLog = << >>
    /\ pending = << >>
    /\ fault = FALSE
    /\ lastOp = [op |-> "InitGcVictimMap", die |-> 0, blk |-> BLOCK_NONE]

\* The caller holds the block in every build: it has just detached it, or
\* it has nothing detached and the block is in no list.
BuildsHold(dieNo, blockNo) ==
    \/ pending = <<dieNo, blockNo>>
    \/ /\ pending = << >>
       /\ \A p \in Policies : ~InSomeList(BuildIndex(p), dieNo, blockNo)

\* PutToGcVictimList(dieNo, blockNo, count) on the three builds.
BuildsPut(dieNo, blockNo) ==
    LET cnt == invalidSliceCnt[dieNo][blockNo]
        r == [p \in Policies |->
                PutEffect(p, BuildIndex(p), gcActivityTick[p], gcLastTick[p],
                          dieNo, blockNo, cnt)]
    IN
    /\ <<dieNo, blockNo>> \in goodBlocks
    /\ BuildsHold(dieNo, blockNo)
    /\ cnt # 0 => \A p \in Policies : gcActivityTick[p] # ToU32(MaxTick)
    /\ headBlock' = [p \in Policies |-> r[p].ix.headBlock]
    /\ tailBlock' = [p \in Policies |-> r[p].ix.tailBlock]
    /\ prevBlock' = [p \in Policies |-> r[p].ix.prevBlock]
    /\ nextBlock' = [p \in Policies |-> r[p].ix.nextBlock]
    /\ gcActivityTick' = [p \in Policies |-> r[p].tick]
    /\ gcLastTick' = [p \in Policies |-> r[p].last]
    /\ pending' = << >>
    /\ lastOp' = [op |-> "PutToGcVictimList", die |-> dieNo, blk |-> blockNo]
    /\ UNCHANGED <<policy, goodBlocks, invalidSliceCnt, eraseCnt, logicalSliceMap,
                   virtualSliceMap, reqLog, fault>>

\* SelectiveGetFromGcVictimList(dieNo, blockNo) on the three builds, on a
\* block that sits in the bucket of its count.
BuildsDetach(dieNo, blockNo) ==
    LET r == [p \in Policies |->
                SelectiveGetFromGcVictimList(BuildIndex(p), invalidSliceCnt,
                                             dieNo, blockNo)]
    IN
    /\ pending = << >>
    /\ \A p \in Policies :
          blockNo \in Members(BuildIndex(p), dieNo, invalidSliceCnt[dieNo][blockNo])
    /\ headBlock' = [p \in Policies |-> r[p].headBlock]
    /\ tailBlock' = [p \in Policies |-> r[p].tailBlock]
    /\ prevBlock' = [p \in Policies |-> r[p].prevBlock]
    /\ nextBlock' = [p \in Policies |-> r[p].nextBlock]
    /\ pending' = <<dieNo, blockNo>>
    /\ lastOp' = [op |-> "SelectiveGetFromGcVictimList", die |-> dieNo,
                  blk |-> blockNo]
    /\ UNCHANGED <<policy, goodBlocks, invalidSliceCnt, eraseCnt, gcActivityTick,
                   gcLastTick, logicalSliceMap, virtualSliceMap, reqLog, fault>>

\* The caller counts one more invalid slice of a block it holds.
BuildsInvalidate(dieNo, blockNo) ==
    /\ <<dieNo, blockNo>> \in goodBlocks
    /\ BuildsHold(dieNo, blockNo)
    /\ invalidSliceCnt[dieNo][blockNo] < SLICES_PER_BLOCK
    /\ invalidSliceCnt' = [invalidSliceCnt EXCEPT ![dieNo][blockNo] = @ + 1]
    /\ pending' = <<dieNo, blockNo>>
    /\ lastOp' = [op |-> "HostInvalidate", die |-> dieNo, blk |-> blockNo]
    /\ UNCHANGED <<policy, goodBlocks, headBlock, tailBlock, prevBlock, nextBlock,
                   eraseCnt, gcActivityTick, gcLastTick, logicalSliceMap,
                   virtualSliceMap, reqLog, fault>>

NextBuilds ==
    \/ \E d \in Dies, b \in Blocks : BuildsPut(d, b)
    \/ \E d \in Dies, b \in Blocks : BuildsDetach(d, b)
    \/ \E d \in Dies, b \in Blocks : BuildsInvalidate(d, b)

SpecBuilds == InitBuilds /\ [][NextBuilds]_vars

\* ==================================================================
\* Properties
\* ==================================================================
NoDuplicates(s) == \A i, j \in 1 .. Len(s) : i # j => s[i] # s[j]

Candidates(ix, d) == UNION {Members(ix, d, k) : k \in 1 .. SLICES_PER_BLOCK}

\* C1 -- Bucket consistency: every block reachable from the head of bucket k
\* of any die has invalidSliceCnt = k, in the three builds.
C1_BucketConsistency ==
    \A d \in Dies, k \in Buckets :
        \A b \in Members(Index, d, k) : invalidSliceCnt[d][b] = k

\* A die holding blocks in two different buckets after a block has been
\* erased and put again.
C1_Witness ==
    /\ lastOp.op = "PutToGcVictimList"
    /\ TotalErases > 0
    /\ invalidSliceCnt[lastOp.die][lastOp.blk] = SLICES_PER_BLOCK
    /\ lastOp.blk \in Members(Index, lastOp.die, SLICES_PER_BLOCK)
    /\ Members(Index, lastOp.die, 1) # {}

\* C2 -- Linked-list integrity: from headBlock the nextBlock links reach
\* tailBlock in len-1 links without repeating a block, from tailBlock the
\* prevBlock links reach headBlock over the same blocks in reverse, and
\* neighbours point at each other.
C2_ListIntegrity ==
    \A d \in Dies, k \in Buckets :
        headBlock[d][k] # BLOCK_NONE =>
            LET fwd == Walk(Index, d, k)
                bwd == WalkBack(Index, d, k)
            IN
            /\ NoDuplicates(fwd)
            /\ fwd[Len(fwd)] = tailBlock[d][k]
            /\ nextBlock[d][fwd[Len(fwd)]] = BLOCK_NONE
            /\ bwd = Reverse(fwd)
            /\ prevBlock[d][fwd[1]] = BLOCK_NONE
            /\ \A i \in 1 .. (Len(fwd) - 1) :
                  /\ nextBlock[d][fwd[i]] = fwd[i + 1]
                  /\ prevBlock[d][fwd[i + 1]] = fwd[i]

\* A bucket that had an interior block removed: two blocks left, the
\* removed one still pointing at both.
C2_Witness ==
    /\ lastOp.op = "SelectiveGetFromGcVictimList"
    /\ prevBlock[lastOp.die][lastOp.blk] # BLOCK_NONE
    /\ nextBlock[lastOp.die][lastOp.blk] # BLOCK_NONE
    /\ Len(Walk(Index, lastOp.die, invalidSliceCnt[lastOp.die][lastOp.blk])) = 2

\* C3 -- Bucket descriptor: headBlock is BLOCK_NONE exactly when tailBlock
\* is; in a non-empty bucket the head has no prevBlock and the tail has no
\* nextBlock.
C3_BucketDescriptor ==
    \A d \in Dies, k \in Buckets :
        /\ (headBlock[d][k] = BLOCK_NONE) <=> (tailBlock[d][k] = BLOCK_NONE)
        /\ headBlock[d][k] # BLOCK_NONE =>
              /\ prevBlock[d][headBlock[d][k]] = BLOCK_NONE
              /\ nextBlock[d][tailBlock[d][k]] = BLOCK_NONE

\* A Greedy selection that popped the head of a bucket with a successor
\* (the victim still names it), on a die with another bucket emptied.
C3_Witness ==
    /\ policy = "GREEDY"
    /\ lastOp.op = "GetFromGcVictimList"
    /\ lastOp.blk # BLOCK_FAIL
    /\ nextBlock[lastOp.die][lastOp.blk] # BLOCK_NONE
    /\ headBlock[lastOp.die][invalidSliceCnt[lastOp.die][lastOp.blk]]
          = nextBlock[lastOp.die][lastOp.blk]
    /\ \E k \in Buckets : headBlock[lastOp.die][k] = BLOCK_NONE

\* C4 -- Exclusive membership: no block is reachable from the heads of two
\* buckets of its die, and no block appears twice in one bucket.
C4_ExclusiveMembership ==
    \A d \in Dies :
        /\ \A k \in Buckets : NoDuplicates(Walk(Index, d, k))
        /\ \A k1, k2 \in Buckets :
              k1 # k2 => Members(Index, d, k1) \cap Members(Index, d, k2) = {}

\* A block moved from the head of one bucket to another bucket by
\* Detach, count change and Put, its old bucket still populated.
C4_Witness ==
    /\ lastOp.op = "PutToGcVictimList"
    /\ invalidSliceCnt[lastOp.die][lastOp.blk] = SLICES_PER_BLOCK
    /\ Members(Index, lastOp.die, SLICES_PER_BLOCK) = {lastOp.blk}
    /\ Cardinality(Members(Index, lastOp.die, SLICES_PER_BLOCK - 1)) = 2

\* A step that is a call of GetFromGcVictimList(d), on its own or as the
\* first statement of GarbageCollection(d).
SelectionStep(d) ==
    /\ ~fault
    /\ lastOp'.op \in {"GetFromGcVictimList", "GarbageCollection"}
    /\ lastOp'.die = d

\* C5 -- GetVictim success: in every build, when one of buckets 1..S of the
\* die is non-empty, GetFromGcVictimList returns a block of those buckets and
\* does not assert.
C5_GetVictimSucceeds ==
    [][\A d \in Dies :
          (SelectionStep(d) /\ Candidates(Index, d) # {}) =>
              (~fault' /\ lastOp'.blk \in Candidates(Index, d))]_vars

\* C6 -- No-victim fault: in every build, when buckets 1..S of the die are
\* all empty GetFromGcVictimList asserts, returns no real block, and has
\* changed no bucket descriptor and no block link.
C6_NoVictimFault ==
    [][\A d \in Dies :
          (SelectionStep(d)
             /\ \A k \in 1 .. SLICES_PER_BLOCK : headBlock[d][k] = BLOCK_NONE) =>
              (fault' /\ lastOp'.blk = BLOCK_FAIL /\ Index' = Index)]_vars

\* The assertion fired on a die whose only non-empty bucket is bucket 0.
C6_Witness ==
    /\ fault
    /\ lastOp.op = "GetFromGcVictimList"
    /\ lastOp.blk = BLOCK_FAIL
    /\ headBlock[lastOp.die][0] # BLOCK_NONE
    /\ \A k \in 1 .. SLICES_PER_BLOCK : headBlock[lastOp.die][k] = BLOCK_NONE

\* C7 -- Greedy selection: the Greedy build returns the head of the highest
\* non-empty bucket among 1..S and removes it: the rest of that bucket keeps
\* its order with the old successor as head (prevBlock NONE), or the bucket
\* becomes empty; the other buckets are untouched.  With Put appending at
\* the tail this is first-in first-out within a bucket.
C7_GreedySelection ==
    [][\A d \in Dies :
          (policy = "GREEDY" /\ SelectionStep(d) /\ Candidates(Index, d) # {}) =>
              LET full == {k \in 1 .. SLICES_PER_BLOCK : headBlock[d][k] # BLOCK_NONE}
                  top == CHOOSE k \in full : \A j \in full : j <= k
                  rest == Tail(Walk(Index, d, top))
              IN
              /\ lastOp'.blk = headBlock[d][top]
              /\ Walk(Index', d, top) = rest
              /\ IF rest = << >>
                 THEN headBlock'[d][top] = BLOCK_NONE /\ tailBlock'[d][top] = BLOCK_NONE
                 ELSE /\ headBlock'[d][top] = rest[1]
                      /\ prevBlock'[d][rest[1]] = BLOCK_NONE
                      /\ tailBlock'[d][top] = tailBlock[d][top]
              /\ \A k \in Buckets \ {top} :
                    /\ headBlock'[d][k] = headBlock[d][k]
                    /\ tailBlock'[d][k] = tailBlock[d][k]
                    /\ Walk(Index', d, k) = Walk(Index, d, k)]_vars

\* Greedy took the head of the top bucket while that bucket kept a block and
\* a lower bucket held one too.
C7_Witness ==
    /\ policy = "GREEDY"
    /\ lastOp.op = "GetFromGcVictimList"
    /\ lastOp.blk # BLOCK_FAIL
    /\ invalidSliceCnt[lastOp.die][lastOp.blk] = SLICES_PER_BLOCK
    /\ headBlock[lastOp.die][SLICES_PER_BLOCK] # BLOCK_NONE
    /\ headBlock[lastOp.die][1] # BLOCK_NONE

\* C8 -- Selection dominance: the block the Cost-Benefit build returns has,
\* at the moment of selection, a Cost-Benefit score no smaller than that of
\* any block in buckets 1..S of the die.
C8_SelectionDominance ==
    [][\A d \in Dies :
          (policy = "COST_BENEFIT" /\ SelectionStep(d) /\ lastOp'.blk # BLOCK_FAIL) =>
              /\ lastOp'.blk \in Candidates(Index, d)
              /\ \A c \in Candidates(Index, d) :
                    ~LessU32(CalculateCostBenefitScore(invalidSliceCnt, gcActivityTick,
                                                       gcLastTick, d, lastOp'.blk),
                             CalculateCostBenefitScore(invalidSliceCnt, gcActivityTick,
                                                       gcLastTick, d, c))]_vars

\* Cost-Benefit returned a block and left behind a block of the same bucket
\* with a strictly smaller score (the clock, the age table and the counts
\* are not changed by the selection).
C8_Witness ==
    /\ policy = "COST_BENEFIT"
    /\ lastOp.op = "GetFromGcVictimList"
    /\ lastOp.blk # BLOCK_FAIL
    /\ \E c \in Members(Index, lastOp.die, invalidSliceCnt[lastOp.die][lastOp.blk]) :
          /\ c = headBlock[lastOp.die][invalidSliceCnt[lastOp.die][c]]
          /\ gcLastTick[lastOp.die][c] # Zero32
          /\ LessU32(CalculateCostBenefitScore(invalidSliceCnt, gcActivityTick,
                                               gcLastTick, lastOp.die, c),
                     CalculateCostBenefitScore(invalidSliceCnt, gcActivityTick,
                                               gcLastTick, lastOp.die, lastOp.blk))

\* C9 -- Wear spread (CAT): when the only two candidates of a die have the
\* same invalid count (hence the same valid count) and the same age but
\* different erase counts, the CAT build returns the one with the lower
\* erase count, whichever comes first in the bucket.
C9_WearSpread ==
    [][\A d \in Dies, a \in Blocks, b \in Blocks :
          (/\ policy = "CAT"
           /\ SelectionStep(d)
           /\ Candidates(Index, d) = {a, b}
           /\ invalidSliceCnt[d][a] = invalidSliceCnt[d][b]
           /\ gcLastTick[d][a] = gcLastTick[d][b]
           /\ eraseCnt[d][a] < eraseCnt[d][b]) =>
              lastOp'.blk = a]_vars

\* C10 -- Put postcondition: the block becomes the tail of bucket count with
\* nextBlock NONE; on an empty bucket it is also the head with prevBlock
\* NONE, otherwise its prevBlock is the former tail, whose nextBlock is the
\* block, and the head is unchanged; every other bucket of the die and every
\* bucket of every other die is unchanged.
C10_PutPostcondition ==
    [][\A d \in Dies, b \in Blocks :
          (lastOp'.op = "PutToGcVictimList" /\ lastOp'.die = d /\ lastOp'.blk = b) =>
              LET c == invalidSliceCnt[d][b]
                  oldTail == tailBlock[d][c]
              IN
              /\ tailBlock'[d][c] = b
              /\ nextBlock'[d][b] = BLOCK_NONE
              /\ Walk(Index', d, c) = Append(Walk(Index, d, c), b)
              /\ IF oldTail = BLOCK_NONE
                 THEN headBlock'[d][c] = b /\ prevBlock'[d][b] = BLOCK_NONE
                 ELSE /\ prevBlock'[d][b] = oldTail
                      /\ nextBlock'[d][oldTail] = b
                      /\ headBlock'[d][c] = headBlock[d][c]
              /\ \A d2 \in Dies, k \in Buckets :
                    <<d2, k>> # <<d, c>> =>
                        /\ headBlock'[d2][k] = headBlock[d2][k]
                        /\ tailBlock'[d2][k] = tailBlock[d2][k]
                        /\ Walk(Index', d2, k) = Walk(Index, d2, k)]_vars

\* A Put behind a former tail, with a populated bucket on another die.
C10_Witness ==
    /\ lastOp.op = "PutToGcVictimList"
    /\ prevBlock[lastOp.die][lastOp.blk] # BLOCK_NONE
    /\ tailBlock[lastOp.die][invalidSliceCnt[lastOp.die][lastOp.blk]] = lastOp.blk
    /\ \E d2 \in Dies \ {lastOp.die} : \E k \in Buckets : headBlock[d2][k] # BLOCK_NONE

\* A step that is a call of the public SelectiveGetFromGcVictimList(d, b).
DetachStep(d, b) ==
    /\ lastOp'.op = "SelectiveGetFromGcVictimList"
    /\ lastOp'.die = d
    /\ lastOp'.blk = b

\* The sequence s without the block b.
Without(s, b) == SelectSeq(s, LAMBDA x : x # b)

\* C11 -- Detach removal: SelectiveGetFromGcVictimList on a member of the
\* bucket keyed by its count removes exactly that block, wherever it stood
\* (interior, tail, head, alone): the bucket holds the same blocks in the
\* same order without it, head and tail follow, and every other bucket is
\* unchanged.
C11_DetachRemoval ==
    [][\A d \in Dies, b \in Blocks :
          (DetachStep(d, b) /\ b \in Members(Index, d, invalidSliceCnt[d][b])) =>
              LET k == invalidSliceCnt[d][b]
                  rest == Without(Walk(Index, d, k), b)
              IN
              /\ Walk(Index', d, k) = rest
              /\ Len(rest) = Len(Walk(Index, d, k)) - 1
              /\ headBlock'[d][k] = IF rest = << >> THEN BLOCK_NONE ELSE rest[1]
              /\ tailBlock'[d][k] = IF rest = << >> THEN BLOCK_NONE ELSE rest[Len(rest)]
              /\ \A d2 \in Dies, k2 \in Buckets :
                    <<d2, k2>> # <<d, k>> =>
                        /\ headBlock'[d2][k2] = headBlock[d2][k2]
                        /\ tailBlock'[d2][k2] = tailBlock[d2][k2]
                        /\ Walk(Index', d2, k2) = Walk(Index, d2, k2)]_vars

\* The tail of a three-block bucket was removed: two blocks are left and the
\* new tail is the removed block's former predecessor.
C11_Witness ==
    /\ lastOp.op = "SelectiveGetFromGcVictimList"
    /\ nextBlock[lastOp.die][lastOp.blk] = BLOCK_NONE
    /\ prevBlock[lastOp.die][lastOp.blk] # BLOCK_NONE
    /\ tailBlock[lastOp.die][invalidSliceCnt[lastOp.die][lastOp.blk]]
          = prevBlock[lastOp.die][lastOp.blk]
    /\ Len(Walk(Index, lastOp.die, invalidSliceCnt[lastOp.die][lastOp.blk])) = 2

\* C12 -- Detach clears the detached block's own links: when the public
\* SelectiveGetFromGcVictimList returns, the block's prevBlock and nextBlock
\* are both BLOCK_NONE, in every build and from every list position.
C12_DetachClearsLinks ==
    [][\A d \in Dies, b \in Blocks :
          DetachStep(d, b) =>
              /\ prevBlock'[d][b] = BLOCK_NONE
              /\ nextBlock'[d][b] = BLOCK_NONE]_vars

\* A step that is a call of PutToGcVictimList(d, b, invalidSliceCnt[d][b]).
PutStep(d, b) ==
    /\ lastOp'.op = "PutToGcVictimList"
    /\ lastOp'.die = d
    /\ lastOp'.blk = b

\* t2 is t1 + 1 without overflow of 32 bits.
PlusOne(t1, t2) ==
    \/ t1[2] < W16 - 1 /\ t2 = <<t1[1], t1[2] + 1>>
    \/ t1[2] = W16 - 1 /\ t1[1] < W16 - 1 /\ t2 = <<t1[1] + 1, 0>>

\* The clock rule of one step, with "plus one" given by the relation inc:
\* a Put with a non-zero count advances the clock, nothing else moves it.
ClockRule(inc(_, _)) ==
    \A d \in Dies, b \in Blocks :
        IF PutStep(d, b) /\ invalidSliceCnt[d][b] # 0
        THEN inc(gcActivityTick, gcActivityTick')
        ELSE PutStep(d, b) \/ lastOp'.op # "PutToGcVictimList"
                => gcActivityTick' = gcActivityTick

\* C13 -- Clock monotonicity, as stated: in the Cost-Benefit and CAT builds
\* the activity tick never decreases; each Put with count > 0 increases it
\* by exactly 1 and each Put with count = 0, and every other operation,
\* leaves it unchanged.
C13_ClockMonotone ==
    [][policy # "GREEDY" =>
          /\ ~LessU32(gcActivityTick', gcActivityTick)
          /\ ClockRule(PlusOne)]_vars

\* t2 is t1 + 1 modulo 2^32.
PlusOneMod(t1, t2) == PlusOne(t1, t2) \/ (t1 = Max32 /\ t2 = Zero32)

\* C13 (amended) -- in the Cost-Benefit and CAT builds each Put with
\* count > 0 advances the activity tick by exactly 1 modulo 2^32, each Put
\* with count = 0 and every other operation leaves it unchanged, and the
\* tick decreases only in the step from 2^32 - 1 to 0.
C13_ClockModular ==
    [][policy # "GREEDY" =>
          /\ LessU32(gcActivityTick', gcActivityTick)
                => (gcActivityTick = Max32 /\ gcActivityTick' = Zero32)
          /\ ClockRule(PlusOneMod)]_vars

\* A Put with a non-zero count has just taken the clock from 2^32 - 1 to 0.
C13_Witness ==
    /\ policy # "GREEDY"
    /\ lastOp.op = "PutToGcVictimList"
    /\ invalidSliceCnt[lastOp.die][lastOp.blk] # 0
    /\ gcActivityTick = Zero32
    /\ \E d \in Dies, b \in Blocks : gcLastTick[d][b] = Max32

\* A step that is a call of GarbageCollection(d) whose selection returned a
\* block.
CollectStep(d) ==
    /\ ~fault
    /\ lastOp'.op = "GarbageCollection"
    /\ lastOp'.die = d
    /\ lastOp'.blk # BLOCK_FAIL

\* The tables GarbageCollection works on, as it finds them.
Device ==
    [cnt |-> invalidSliceCnt, wear |-> eraseCnt, l2v |-> logicalSliceMap,
     v2l |-> virtualSliceMap, log |-> << >>]

\* The events of a log that satisfy a test, in order.
Events(log, Test(_)) == SelectSeq(log, Test)

IsWrite(e) == e.ev = "SelectLowLevelReqQ" /\ e.code = "WRITE"
IsRead(e) == e.ev = "SelectLowLevelReqQ" /\ e.code = "READ"

\* C14 -- Liveness round-trip: for every logical slice L that
\* GarbageCollection migrates from v to the slice newV the allocator
\* returned, right after that page's iteration logicalSliceMap[L] = newV and
\* virtualSliceMap[newV] = L, so newV passes the liveness test and v no
\* longer does; the entries are still so when GarbageCollection returns.
C14_LivenessRoundTrip ==
    [][\A d \in Dies :
          (CollectStep(d) /\ invalidSliceCnt[d][lastOp'.blk] # SLICES_PER_BLOCK) =>
              /\ \A dest \in DestPlans(goodBlocks, logicalSliceMap, virtualSliceMap,
                                       d, lastOp'.blk) :
                    LET its == CopyStates(Device, d, lastOp'.blk, 0, dest) IN
                    \A i \in 1 .. Len(its) :
                        LET v == Vorg2VsaTranslation(d, lastOp'.blk, its[i].page)
                            b == its[i].before
                            a == its[i].after
                        IN
                        IsLive(b.l2v, b.v2l, v) =>
                            /\ a.l2v[b.v2l[v]] = dest[its[i].page]
                            /\ a.v2l[dest[its[i].page]] = b.v2l[v]
                            /\ IsLive(a.l2v, a.v2l, dest[its[i].page])
                            /\ ~IsLive(a.l2v, a.v2l, v)
              /\ \A i \in 1 .. Len(reqLog') :
                    IsWrite(reqLog'[i]) =>
                        /\ logicalSliceMap'[reqLog'[i].lsa] = reqLog'[i].vsa
                        /\ virtualSliceMap'[reqLog'[i].vsa] = reqLog'[i].lsa
              /\ Len(Events(reqLog', IsWrite))
                    = Cardinality({p \in Pages :
                          IsLive(logicalSliceMap, virtualSliceMap,
                                 Vorg2VsaTranslation(d, lastOp'.blk, p))})]_vars

\* GarbageCollection has just migrated two logical slices, and both are
\* mapped to their destinations in both directions.
C14_Witness ==
    /\ lastOp.op = "GarbageCollection"
    /\ ~fault
    /\ Len(Events(reqLog, IsWrite)) = 2
    /\ \A i \in 1 .. Len(reqLog) :
          IsWrite(reqLog[i]) =>
              /\ logicalSliceMap[reqLog[i].lsa] = reqLog[i].vsa
              /\ virtualSliceMap[reqLog[i].vsa] = reqLog[i].lsa
              /\ Vsa2VblockTranslation(reqLog[i].vsa) # lastOp.blk

\* C15 -- All-invalid victim: when the block GarbageCollection selects has
\* invalidSliceCnt = SLICES_PER_BLOCK, the run hands no READ and no WRITE to
\* the scheduler, takes no request slot and no temporary buffer, writes no
\* mapping entry, and calls EraseBlock(die, victim) exactly once: the tables
\* afterwards are those a bare EraseBlock leaves.
C15_AllInvalidVictim ==
    [][\A d \in Dies :
          (CollectStep(d) /\ invalidSliceCnt[d][lastOp'.blk] = SLICES_PER_BLOCK) =>
              /\ reqLog' = <<[ev |-> "EraseBlock", die |-> d, blk |-> lastOp'.blk]>>
              /\ logicalSliceMap' = logicalSliceMap
              /\ virtualSliceMap' = EraseBlock(Device, d, lastOp'.blk).v2l
              /\ \A v \in Vsas :
                    Vsa2VblockTranslation(v) # lastOp'.blk \/ Vsa2VdieTranslation(v) # d
                        => virtualSliceMap'[v] = virtualSliceMap[v]]_vars

\* GarbageCollection has just erased a block all of whose slices had been
\* invalidated: the clock counts one Put per slice of a block, no slice of
\* the device holds data any more, and the run logged the erase alone.
C15_Witness ==
    /\ policy # "GREEDY"
    /\ lastOp.op = "GarbageCollection"
    /\ ~fault
    /\ reqLog = <<[ev |-> "EraseBlock", die |-> lastOp.die, blk |-> lastOp.blk]>>
    /\ gcActivityTick = ToU32(SLICES_PER_BLOCK)
    /\ \A v \in Vsas : virtualSliceMap[v] = LSA_NONE
    /\ \A l \in Lsas : logicalSliceMap[l] = VSA_NONE

\* The page of a virtual slice within its block.
Vsa2VpageTranslation(v) == (v \div USER_DIES) % SLICES_PER_BLOCK

\* The positions in a log of the events that satisfy a test, ascending.
Positions(log, Test(_)) ==
    SelectSeq([i \in 1 .. Len(log) |-> i], LAMBDA i : Test(log[i]))

IsErase(e) == e.ev = "EraseBlock"

\* The order GarbageCollection(d) hands its requests over in: as many READs
\* as WRITEs; the i-th READ reads a slice of the victim, the i-th WRITE
\* carries the same logical slice and follows it, and the next READ follows
\* that WRITE and reads a higher page; one EraseBlock of the victim, last.
RequestOrder(log, d, victim) ==
    LET rd == Positions(log, IsRead)
        wr == Positions(log, IsWrite)
        er == Positions(log, IsErase)
    IN
    /\ Len(rd) = Len(wr)
    /\ \A i \in 1 .. Len(rd) :
          /\ rd[i] < wr[i]
          /\ log[rd[i]].lsa = log[wr[i]].lsa
          /\ Vsa2VdieTranslation(log[rd[i]].vsa) = d
          /\ Vsa2VblockTranslation(log[rd[i]].vsa) = victim
          /\ i < Len(rd) =>
                /\ wr[i] < rd[i + 1]
                /\ Vsa2VpageTranslation(log[rd[i]].vsa)
                      < Vsa2VpageTranslation(log[rd[i + 1]].vsa)
    /\ er = <<Len(log)>>
    /\ log[Len(log)] = [ev |-> "EraseBlock", die |-> d, blk |-> victim]

\* C16 -- Request ordering within one GarbageCollection: for every migrated
\* live slice the READ is handed to the scheduler before the WRITE, the
\* READ/WRITE pairs follow one another in ascending page order of the
\* victim, and EraseBlock(die, victim) is called only after the WRITE of the
\* last live page.
C16_RequestOrdering ==
    [][\A d \in Dies :
          CollectStep(d) =>
              /\ RequestOrder(reqLog', d, lastOp'.blk)
              /\ Len(Positions(reqLog', IsRead))
                    = Cardinality({p \in Pages :
                          IsLive(logicalSliceMap, virtualSliceMap,
                                 Vorg2VsaTranslation(d, lastOp'.blk, p))})]_vars

\* GarbageCollection has just copied two live pages of its victim: the log
\* holds READ, WRITE, READ, WRITE of two different pages and then the erase.
C16_Witness ==
    /\ lastOp.op = "GarbageCollection"
    /\ ~fault
    /\ Len(Positions(reqLog, IsRead)) = 2
    /\ Len(Positions(reqLog, IsWrite)) = 2
    /\ RequestOrder(reqLog, lastOp.die, lastOp.blk)
    /\ Positions(reqLog, IsErase) = <<Len(reqLog)>>

\* The integrity conditions of the candidate index, for an index value ix
\* and a table of counts: bucket consistency, list integrity both ways,
\* descriptor shape, exclusive membership.
IndexIntegrity(ix, cntOf) ==
    \A d \in Dies :
        /\ \A k \in Buckets :
              LET fwd == Walk(ix, d, k) IN
              /\ \A i \in 1 .. Len(fwd) : cntOf[d][fwd[i]] = k
              /\ NoDuplicates(fwd)
              /\ WalkBack(ix, d, k) = Reverse(fwd)
              /\ (ix.headBlock[d][k] = BLOCK_NONE) <=> (ix.tailBlock[d][k] = BLOCK_NONE)
              /\ ix.headBlock[d][k] # BLOCK_NONE =>
                    /\ fwd[Len(fwd)] = ix.tailBlock[d][k]
                    /\ ix.prevBlock[d][ix.headBlock[d][k]] = BLOCK_NONE
                    /\ ix.nextBlock[d][ix.tailBlock[d][k]] = BLOCK_NONE
                    /\ \A i \in 1 .. (Len(fwd) - 1) :
                          /\ ix.nextBlock[d][fwd[i]] = fwd[i + 1]
                          /\ ix.prevBlock[d][fwd[i + 1]] = fwd[i]
        /\ \A k1, k2 \in Buckets :
              k1 # k2 => Members(ix, d, k1) \cap Members(ix, d, k2) = {}

\* The index after SelectiveGetFromGcVictimList(d, b) followed by
\* PutToGcVictimList(d, b, cntOf[d][b]), from the index ix.
DetachThenPut(ix, cntOf, d, b) ==
    LinkAtTail(SelectiveGetFromGcVictimList(ix, cntOf, d, b), d, b, cntOf[d][b])

\* C17 -- Idempotence of Detach+Put: for a block b that sits in bucket k of
\* its unchanged count, SelectiveGetFromGcVictimList(b) followed by
\* PutToGcVictimList(b, k) leaves every bucket with the same blocks in the
\* same relative order, except that b is now the tail of bucket k; the
\* integrity conditions hold of the result.  In each of the three builds.
C17_DetachPutIdempotent ==
    \A p \in Policies, d \in Dies, b \in Blocks :
        b \in Members(BuildIndex(p), d, invalidSliceCnt[d][b]) =>
            LET k == invalidSliceCnt[d][b]
                old == BuildIndex(p)
                ix == DetachThenPut(old, invalidSliceCnt, d, b)
            IN
            /\ Walk(ix, d, k) = Without(Walk(old, d, k), b) \o <<b>>
            /\ ix.tailBlock[d][k] = b
            /\ \A d2 \in Dies, k2 \in Buckets :
                  <<d2, k2>> # <<d, k>> =>
                      /\ Walk(ix, d2, k2) = Walk(old, d2, k2)
                      /\ ix.headBlock[d2][k2] = old.headBlock[d2][k2]
                      /\ ix.tailBlock[d2][k2] = old.tailBlock[d2][k2]
            /\ IndexIntegrity(ix, invalidSliceCnt)

\* The head of a three-block bucket has just been detached, its count
\* unchanged; putting it back makes it the tail behind the two others.
C17_Witness ==
    /\ lastOp.op = "SelectiveGetFromGcVictimList"
    /\ pending = <<lastOp.die, lastOp.blk>>
    /\ LET d == lastOp.die
           b == lastOp.blk
           k == invalidSliceCnt[d][b]
       IN
       /\ \A p \in Policies :
             /\ Len(Walk(BuildIndex(p), d, k)) = 2
             /\ nextBlock[p][d][b] = headBlock[p][d][k]
             /\ Walk(LinkAtTail(BuildIndex(p), d, b, k), d, k)
                   = Walk(BuildIndex(p), d, k) \o <<b>>
       /\ ENABLED BuildsPut(d, b)

\* A step that is a call of InitGcVictimMap.
InitStep == lastOp'.op = "InitGcVictimMap"

\* C18 -- Init postcondition: after InitGcVictimMap, whatever the state
\* before the call, every bucket 0 .. SLICES_PER_BLOCK of every die has
\* headBlock = tailBlock = BLOCK_NONE, every entry of the age table of the
\* Cost-Benefit and CAT builds is 0, and the activity tick is 0.
C18_InitPostcondition ==
    [][InitStep =>
          /\ \A d \in Dies, k \in Buckets :
                /\ headBlock'[d][k] = BLOCK_NONE
                /\ tailBlock'[d][k] = BLOCK_NONE
          /\ policy # "GREEDY" =>
                \A d \in Dies, b \in Blocks : gcLastTick'[d][b] = Zero32
          /\ gcActivityTick' = Zero32]_vars

\* InitGcVictimMap has just run on a scoring build that had collected a
\* block and still had blocks linked: the links of the block table are
\* stale, the buckets are empty and the clock is back at 0.
C18_Witness ==
    /\ lastOp.op = "InitGcVictimMap"
    /\ policy # "GREEDY"
    /\ TotalErases > 0
    /\ \E d \in Dies, b \in Blocks :
          /\ nextBlock[d][b] # BLOCK_NONE
          /\ invalidSliceCnt[d][b] = SLICES_PER_BLOCK
    /\ \A d \in Dies, k \in Buckets :
          headBlock[d][k] = BLOCK_NONE /\ tailBlock[d][k] = BLOCK_NONE
    /\ gcActivityTick = Zero32

IsMapUpdate(e) == e.ev = "MapUpdate"

\* The first event of the iteration of a live page.
IsPageStart(e) == e.ev = "GetFromFreeReqQ" /\ e.code = "READ"

\* The mapping writes of slice l to newV sit at position j of the log.
MapUpdateAt(log, j, l, newV) ==
    /\ j \in 1 .. Len(log)
    /\ IsMapUpdate(log[j])
    /\ log[j].lsa = l
    /\ log[j].vsa = newV

SlicesOf(d, b) == {Vorg2VsaTranslation(d, b, p) : p \in Pages}

\* The slices the READ requests of a log read, and the logical slices its
\* WRITE requests carry.
ReadSlices(log) == {log[i].vsa : i \in {j \in 1 .. Len(log) : IsRead(log[j])}}
WrittenLsas(log) == {log[i].lsa : i \in {j \in 1 .. Len(log) : IsWrite(log[j])}}

\* C21 -- Liveness test in migration: for a victim that is not all-invalid,
\* GarbageCollection hands over a READ/WRITE pair for page p with virtual
\* slice v if and only if virtualSliceMap[v] = L is not LSA_NONE and
\* logicalSliceMap[L] = v; an unmapped page and a page whose logical slice
\* points elsewhere are skipped: no request names them and no mapping
\* entry changes on their account.
C21_LivenessTest ==
    [][\A d \in Dies :
          (CollectStep(d) /\ invalidSliceCnt[d][lastOp'.blk] # SLICES_PER_BLOCK) =>
              LET victim == SlicesOf(d, lastOp'.blk)
                  live == {v \in victim :
                              /\ virtualSliceMap[v] # LSA_NONE
                              /\ logicalSliceMap[virtualSliceMap[v]] = v}
              IN
              /\ ReadSlices(reqLog') = live
              /\ WrittenLsas(reqLog') = {virtualSliceMap[v] : v \in live}
              /\ Len(Positions(reqLog', IsRead)) = Cardinality(live)
              /\ Len(Positions(reqLog', IsWrite)) = Cardinality(live)
              /\ \A l \in Lsas :
                    logicalSliceMap'[l] # logicalSliceMap[l] =>
                        logicalSliceMap[l] \in live
              /\ \A v \in Vsas \ victim :
                    virtualSliceMap'[v] # virtualSliceMap[v] =>
                        /\ virtualSliceMap[v] = LSA_NONE
                        /\ virtualSliceMap'[v] \in {virtualSliceMap[w] : w \in live}]_vars

\* A scoring build has just collected the only block with an invalidated
\* slice: one page of it was stale, one was live and was copied, one had
\* never been written.
C21_Witness ==
    /\ policy # "GREEDY"
    /\ lastOp.op = "GarbageCollection"
    /\ ~fault
    /\ gcActivityTick = ToU32(1)
    /\ Len(Positions(reqLog, IsRead)) = 1
    /\ Len(Positions(reqLog, IsWrite)) = 1

\* The place of x in the sequence s (0 when it is not there).
PositionIn(s, x) ==
    IF \E i \in 1 .. Len(s) : s[i] = x
    THEN CHOOSE i \in 1 .. Len(s) : s[i] = x
    ELSE 0

\* The score the build in use gives block b of die d in the current state.
ScoreNow(d, b) ==
    Score(policy, invalidSliceCnt, gcActivityTick, gcLastTick, eraseCnt, d, b)

\* The candidates of die d whose score no other candidate exceeds.
TopScorers(d) ==
    {c \in Candidates(Index, d) :
        \A x \in Candidates(Index, d) : ~LessU32(ScoreNow(d, c), ScoreNow(d, x))}

\* C22 -- Tie-break among equal scores: in the Cost-Benefit and CAT builds,
\* when several candidates share the maximum score, GetFromGcVictimList
\* returns the one of them in the highest bucket and, within that bucket,
\* the one closest to the head.
C22_TieBreak ==
    [][\A d \in Dies :
          (/\ policy # "GREEDY"
           /\ SelectionStep(d)
           /\ Cardinality(TopScorers(d)) >= 2) =>
              LET ret == lastOp'.blk
                  k == invalidSliceCnt[d][ret]
              IN
              /\ ret \in TopScorers(d)
              /\ \A c \in TopScorers(d) \ {ret} :
                    \/ invalidSliceCnt[d][c] < k
                    \/ /\ invalidSliceCnt[d][c] = k
                       /\ PositionIn(Walk(Index, d, k), ret)
                             < PositionIn(Walk(Index, d, k), c)]_vars

\* C23 -- Clock frame: the activity tick is changed only by
\* PutToGcVictimList with a count above 0 (and reset by InitGcVictimMap);
\* SelectiveGetFromGcVictimList, GetFromGcVictimList (whether it returns a
\* block or fails), PutToGcVictimList with count 0 and GarbageCollection
\* (its erase and its age-baseline write included) leave it unchanged.
C23_ClockFrame ==
    [][/\ gcActivityTick' # gcActivityTick =>
             \/ InitStep
             \/ \E d \in Dies, b \in Blocks :
                   PutStep(d, b) /\ invalidSliceCnt[d][b] > 0
       /\ lastOp'.op \in {"SelectiveGetFromGcVictimList", "GetFromGcVictimList",
                          "GarbageCollection"}
             => gcActivityTick' = gcActivityTick
       /\ \A d \in Dies, b \in Blocks :
             (PutStep(d, b) /\ invalidSliceCnt[d][b] = 0)
                 => gcActivityTick' = gcActivityTick]_vars

\* A scoring build whose clock has advanced has just collected a block: the
\* victim's age baseline is the clock value the run found and left, and a
\* block put with count 0 sits in bucket 0.
C23_Witness ==
    /\ policy # "GREEDY"
    /\ lastOp.op = "GarbageCollection"
    /\ ~fault
    /\ gcActivityTick = ToU32(2)
    /\ gcLastTick[lastOp.die][lastOp.blk] = gcActivityTick
    /\ \E b \in Blocks : headBlock[lastOp.die][0] = b

\* C24 -- Age-slot update rule: in the CAT build PutToGcVictimList with a
\* count above 0 sets gcLastInvalidTick of the block to the tick after the
\* increment and changes no other slot; in the Cost-Benefit build Put never
\* writes gcLastEraseTick; Detach and GetFromGcVictimList never write an age
\* slot; so age slots change only at InitGcVictimMap, Put (CAT) and the age
\* reset that ends GarbageCollection.
C24_AgeSlotRule ==
    [][/\ \A d \in Dies, b \in Blocks :
             PutStep(d, b) =>
                 IF policy = "CAT" /\ invalidSliceCnt[d][b] > 0
                 THEN /\ gcActivityTick' = IncU32(gcActivityTick)
                      /\ gcLastTick' = [gcLastTick EXCEPT ![d][b] = gcActivityTick']
                 ELSE gcLastTick' = gcLastTick
       /\ lastOp'.op \in {"SelectiveGetFromGcVictimList", "GetFromGcVictimList"}
             => gcLastTick' = gcLastTick
       /\ gcLastTick' # gcLastTick =>
             \/ InitStep
             \/ policy = "CAT" /\ lastOp'.op = "PutToGcVictimList"
             \/ policy # "GREEDY" /\ lastOp'.op = "GarbageCollection" /\ ~fault']_vars

\* The CAT build has just put a block with a count above 0: its slot holds
\* the new tick, and another block keeps the stamp of an earlier Put.
C24_Witness ==
    /\ policy = "CAT"
    /\ lastOp.op = "PutToGcVictimList"
    /\ invalidSliceCnt[lastOp.die][lastOp.blk] > 0
    /\ gcActivityTick = ToU32(2)
    /\ gcLastTick[lastOp.die][lastOp.blk] = gcActivityTick
    /\ \E b \in Blocks \ {lastOp.blk} : gcLastTick[lastOp.die][b] = ToU32(1)

\* C25 -- Age baseline reset: a GarbageCollection of the Cost-Benefit or CAT
\* build that runs to its end has issued EraseBlock for the victim and leaves
\* the victim's age slot equal to the current activity tick, so the victim's
\* age is 0; it changes the age slot of no other block.
C25_AgeBaselineReset ==
    [][\A d \in Dies :
          (policy # "GREEDY" /\ CollectStep(d)) =>
              LET v == lastOp'.blk IN
              /\ \E i \in 1 .. Len(reqLog') :
                    IsErase(reqLog'[i]) /\ reqLog'[i].die = d /\ reqLog'[i].blk = v
              /\ gcLastTick'[d][v] = gcActivityTick'
              /\ SubU32(gcActivityTick', gcLastTick'[d][v]) = Zero32
              /\ \A e \in Dies, b \in Blocks :
                    <<e, b>> # <<d, v>> => gcLastTick'[e][b] = gcLastTick[e][b]]_vars

\* A run of the CAT build has ended on a victim that was stamped at an
\* earlier tick, beside a block that keeps its own earlier stamp.
C25_Witness ==
    /\ policy = "CAT"
    /\ lastOp.op = "GarbageCollection"
    /\ ~fault
    /\ lastOp.blk # BLOCK_FAIL
    /\ gcActivityTick = ToU32(3)
    /\ gcLastTick[lastOp.die][lastOp.blk] = gcActivityTick
    /\ \E b \in Blocks \ {lastOp.blk} : gcLastTick[lastOp.die][b] = ToU32(1)
    /\ \E b \in Blocks \ {lastOp.blk} : gcLastTick[lastOp.die][b] = ToU32(3)

IsSlotTaken(e) == e.ev = "GetFromFreeReqQ"
IsBufferTaken(e) == e.ev = "AllocateTempDataBuf"
IsBound(e) == e.ev = "UpdateTempDataBufEntryInfoBlockingReq"
IsHandedOver(e) == e.ev = "SelectLowLevelReqQ"

\* The events of a log from position i up to the next GetFromFreeReqQ (or
\* the EraseBlock, or the end): what is done with the slot taken at i.
SlotSpan(log, i) ==
    LET stops == {j \in (i + 1) .. Len(log) : IsSlotTaken(log[j]) \/ IsErase(log[j])}
        last == IF stops = {} THEN Len(log)
                ELSE (CHOOSE j \in stops : \A m \in stops : j <= m) - 1
    IN SubSeq(log, i, last)

\* C26 -- Resource discipline: within one GarbageCollection request slots
\* and temporary buffers are taken only for pages that pass the liveness
\* test: none for a skipped page, two slots and two buffers (one for the
\* READ, one for the WRITE) for a migrated page; every slot taken is bound
\* to its buffer and handed to the low-level scheduler exactly once before
\* the run ends.
C26_ResourceDiscipline ==
    [][\A d \in Dies :
          CollectStep(d) =>
              LET victim == SlicesOf(d, lastOp'.blk)
                  live == IF invalidSliceCnt[d][lastOp'.blk] = SLICES_PER_BLOCK
                          THEN {}
                          ELSE {v \in victim :
                                   /\ virtualSliceMap[v] # LSA_NONE
                                   /\ logicalSliceMap[virtualSliceMap[v]] = v}
                  slots == Positions(reqLog', IsSlotTaken)
              IN
              /\ Len(slots) = 2 * Cardinality(live)
              /\ Len(Positions(reqLog', IsBufferTaken)) = 2 * Cardinality(live)
              /\ \A c \in {"READ", "WRITE"} :
                    /\ Len(Positions(reqLog', LAMBDA e : IsSlotTaken(e) /\ e.code = c))
                          = Cardinality(live)
                    /\ Len(Positions(reqLog', LAMBDA e : IsBufferTaken(e) /\ e.code = c))
                          = Cardinality(live)
              /\ Len(Positions(reqLog', IsHandedOver)) = Len(slots)
              /\ \A n \in 1 .. Len(slots) :
                    LET span == SlotSpan(reqLog', slots[n])
                        buf == Positions(span, IsBufferTaken)
                        bind == Positions(span, IsBound)
                        out == Positions(span, IsHandedOver)
                    IN /\ Len(buf) = 1 /\ Len(bind) = 1 /\ Len(out) = 1
                       /\ buf[1] < bind[1] /\ bind[1] < out[1]
                       /\ \A m \in 1 .. Len(span) :
                             "code" \in DOMAIN span[m] => span[m].code = span[1].code
                       /\ IF n % 2 = 1 THEN span[1].code = "READ" ELSE span[1].code = "WRITE"]_vars

\* A run has just skipped one page of its victim and migrated the two
\* others: four slots and four buffers were taken, none for the skipped page.
C26_Witness ==
    /\ lastOp.op = "GarbageCollection"
    /\ ~fault
    /\ lastOp.blk # BLOCK_FAIL
    /\ Len(Positions(reqLog, IsSlotTaken)) = 4
    /\ Len(Positions(reqLog, IsBufferTaken)) = 4
    /\ Len(Positions(reqLog, IsHandedOver)) = 4

\* The blocks of a die that stand in some bucket.
IndexedBlocks(ix, d) == {b \in Blocks : InSomeList(ix, d, b)}

\* C27 -- Victim lifecycle: the block GetFromGcVictimList selects inside
\* GarbageCollection is in no bucket when the selection returns and stays in
\* none until a later PutToGcVictimList of that block; GarbageCollection
\* selects once and never puts, so it ends with the victim outside the index
\* and with exactly one indexed block fewer on that die.
C27_VictimLifecycle ==
    [][/\ \A d \in Dies :
             CollectStep(d) =>
                 /\ lastOp'.blk \in IndexedBlocks(Index, d)
                 /\ IndexedBlocks(Index', d) = IndexedBlocks(Index, d) \ {lastOp'.blk}
                 /\ Cardinality(IndexedBlocks(Index', d))
                       = Cardinality(IndexedBlocks(Index, d)) - 1
                 /\ Index' = Selected(d).ix
       /\ \A d \in Dies, b \in Blocks :
             (~InSomeList(Index, d, b) /\ InSomeList(Index', d, b)) => PutStep(d, b)]_vars

\* A run has just taken one of the three indexed blocks of a die: the
\* victim is in no bucket and the two others still are.
C27_Witness ==
    /\ lastOp.op = "GarbageCollection"
    /\ ~fault
    /\ lastOp.blk # BLOCK_FAIL
    /\ ~InSomeList(Index, lastOp.die, lastOp.blk)
    /\ Cardinality(IndexedBlocks(Index, lastOp.die)) = USER_BLOCKS_PER_DIE - 1

\* C28 -- Bucket 0 is never scanned: in every build GetFromGcVictimList
\* never returns a member of bucket 0 and never changes the head or tail of
\* bucket 0 or a link of one of its members, also when bucket 0 is the only
\* non-empty bucket of the die.
C28_BucketZeroUntouched ==
    [][\A d \in Dies :
          SelectionStep(d) =>
              /\ lastOp'.blk \notin Members(Index, d, 0)
              /\ headBlock'[d][0] = headBlock[d][0]
              /\ tailBlock'[d][0] = tailBlock[d][0]
              /\ \A b \in Members(Index, d, 0) :
                    /\ nextBlock'[d][b] = nextBlock[d][b]
                    /\ prevBlock'[d][b] = prevBlock[d][b]
              /\ Walk(Index', d, 0) = Walk(Index, d, 0)]_vars

\* A selection has just taken a block from a die whose bucket 0 holds the
\* two other blocks.
C28_Witness ==
    /\ lastOp.op \in {"GetFromGcVictimList", "GarbageCollection"}
    /\ ~fault
    /\ lastOp.blk # BLOCK_FAIL
    /\ Len(Walk(Index, lastOp.die, 0)) = USER_BLOCKS_PER_DIE - 1
    /\ lastOp.blk \notin Members(Index, lastOp.die, 0)

\* x + 1 in 64 bits
IncU64(x) ==
    IF x[4] + 1 < W16 THEN <<x[1], x[2], x[3], x[4] + 1>>
    ELSE IF x[3] + 1 < W16 THEN <<x[1], x[2], x[3] + 1, 0>>
    ELSE IF x[2] + 1 < W16 THEN <<x[1], x[2] + 1, 0, 0>>
    ELSE <<(x[1] + 1) % W16, 0, 0, 0>>

\* The logged calls of the score function.
ScoreCalls == {reqLog[i] : i \in {j \in 1 .. Len(reqLog) : reqLog[j].ev = "CalculateScore"}}

\* The value (I * (A+1) * P) / (P - I + 1) of the written rule: the product
\* in 64 bits, integer division, the low 32 bits of the quotient, and 0 when
\* the product is 0.  Below 2^16 the age is an ordinary integer and so is
\* the whole computation.
CostBenefitRule(I, A, P) ==
    IF A[1] = 0
    THEN ToU32((I * (A[2] + 1) * P) \div (P - I + 1))
    ELSE LET product == MulU64(MulU64(IncU64(ExtU64(A)), I), P) IN
         IF product = <<0, 0, 0, 0>>
         THEN Zero32
         ELSE NarrowU32(DivU64(product, P - I + 1))

\* C29 -- Cost-Benefit score value: for every candidate with invalid count I
\* in [0, S], age A = (tick - last erase tick) mod 2^32 and P pages per
\* block, CalculateCostBenefitScore returns (I * (A+1) * P) / (P - I + 1),
\* the product taken in 64 bits, integer division, narrowed to the low 32
\* bits, and 0 when the product is 0.
C29_CostBenefitValue ==
    policy = "COST_BENEFIT" =>
        \A c \in ScoreCalls : c.ret = CostBenefitRule(c.invalid, c.age, c.pages)

\* The value ((I+1) * (A+1)) / ((V+1) * (W+1)) of the written rule, V being
\* P - I: 64-bit intermediates, integer division, the low 32 bits of the
\* quotient.  Below 2^16 the age is an ordinary integer and so is the whole
\* computation.
CatRule(I, A, W, P) ==
    IF A[1] = 0
    THEN ToU32(((I + 1) * (A[2] + 1)) \div ((P - I + 1) * (W + 1)))
    ELSE NarrowU32(DivU64(MulU64(IncU64(ExtU64(A)), I + 1),
                          (P - I + 1) * (W + 1)))

\* C30 -- CAT score value: for every candidate with invalid count I, valid
\* count V = P - I, age A = (tick - last invalid tick) mod 2^32 and erase
\* count W, CalculateCatScore returns ((I+1) * (A+1)) / ((V+1) * (W+1)),
\* integer division on 64-bit intermediates narrowed to 32 bits, and the
\* denominator is not zero for any I in [0, S] and any W.
C30_CatValue ==
    policy = "CAT" =>
        \A c \in ScoreCalls :
            /\ (c.pages - c.invalid + 1) * (c.wear + 1) # 0
            /\ c.ret = CatRule(c.invalid, c.age, c.wear, c.pages)

IsAllocation(e) == e.ev = "FindFreeVirtualSliceForGc"

\* C31 -- Request addressing: every READ handed over by GarbageCollection
\* carries a slice v of the victim and the logical slice L that
\* virtualSliceMap held for v; the WRITE paired with it carries the same L
\* and the slice FindFreeVirtualSliceForGc returned when called with the die
\* and the victim; both requests have the row-address dependency check on;
\* the allocator is called once per migrated page.
C31_RequestAddressing ==
    [][\A d \in Dies :
          CollectStep(d) =>
              LET rd == Positions(reqLog', IsRead)
                  wr == Positions(reqLog', IsWrite)
                  al == Positions(reqLog', IsAllocation)
              IN
              /\ Len(rd) = Len(wr)
              /\ Len(al) = Len(rd)
              /\ \A i \in 1 .. Len(rd) :
                    LET read == reqLog'[rd[i]]
                        write == reqLog'[wr[i]]
                        alloc == reqLog'[al[i]]
                    IN
                    /\ read.vsa \in SlicesOf(d, lastOp'.blk)
                    /\ read.lsa = virtualSliceMap[read.vsa]
                    /\ read.rowAddrDependencyCheck
                    /\ rd[i] < al[i] /\ al[i] < wr[i]
                    /\ alloc.die = d
                    /\ alloc.blk = lastOp'.blk
                    /\ write.lsa = read.lsa
                    /\ write.vsa = alloc.vsa
                    /\ write.rowAddrDependencyCheck]_vars

\* A run has just migrated a page: its WRITE names a slice of another block
\* than the one its READ named, and the same logical slice.
C31_Witness ==
    /\ lastOp.op = "GarbageCollection"
    /\ ~fault
    /\ \E i, j \in 1 .. Len(reqLog) :
          /\ IsRead(reqLog[i])
          /\ IsWrite(reqLog[j])
          /\ i < j
          /\ reqLog[i].lsa = reqLog[j].lsa
          /\ Vsa2VblockTranslation(reqLog[i].vsa) = lastOp.blk
          /\ Vsa2VblockTranslation(reqLog[j].vsa) # lastOp.blk

\* C32 -- In every build the block a successful GetFromGcVictimList returns
\* has prevBlock = BLOCK_NONE and nextBlock = BLOCK_NONE when the call
\* returns: it keeps no link into the list it was taken from.
C32_VictimLinksCleared ==
    [][\A d \in Dies :
          (SelectionStep(d) /\ lastOp'.blk # BLOCK_FAIL) =>
              /\ prevBlock'[d][lastOp'.blk] = BLOCK_NONE
              /\ nextBlock'[d][lastOp'.blk] = BLOCK_NONE]_vars

\* C33 -- SelectiveGetFromGcVictimList called on a block that is in no
\* bucket and has prevBlock = nextBlock = BLOCK_NONE leaves every bucket
\* descriptor and every other block's links unchanged; in particular it does
\* not empty the bucket keyed by the block's invalidSliceCnt when that
\* bucket holds other blocks.
C33_DetachOutsideHarmless ==
    [][\A d \in Dies, b \in Blocks :
          (/\ DetachStep(d, b)
           /\ ~InSomeList(Index, d, b)
           /\ prevBlock[d][b] = BLOCK_NONE
           /\ nextBlock[d][b] = BLOCK_NONE) =>
              /\ headBlock' = headBlock
              /\ tailBlock' = tailBlock
              /\ \A c \in Blocks \ {b} :
                    /\ prevBlock'[d][c] = prevBlock[d][c]
                    /\ nextBlock'[d][c] = nextBlock[d][c]
              /\ \A k \in Buckets : Walk(Index', d, k) = Walk(Index, d, k)]_vars

\* The Cost-Benefit quotient of a block fits 32 bits: computed without
\* narrowing, with age+1 exact, its upper 32 bits are 0.
ScoreFits(d, b) ==
    LET I == invalidSliceCnt[d][b]
        A == SubU32(gcActivityTick, gcLastTick[d][b])
        product == MulU64(MulU64(IncU64(ExtU64(A)), I), USER_PAGES_PER_BLOCK)
        quotient == DivU64(product, USER_PAGES_PER_BLOCK - I + 1)
    IN quotient[1] = 0 /\ quotient[2] = 0

\* All candidates of die d have the same age.
SameAge(d) ==
    \A b, c \in Candidates(Index, d) :
        SubU32(gcActivityTick, gcLastTick[d][b]) = SubU32(gcActivityTick, gcLastTick[d][c])

\* C34 -- When all candidates in buckets 1..S of a die have the same age and
\* no score exceeds 32 bits, the Cost-Benefit GetFromGcVictimList returns
\* the block the Greedy one returns on the same index, the head of the
\* highest non-empty bucket, and leaves the index as Greedy leaves it: the
\* same bucket descriptors, the same lists in both directions, the same
\* links on every block other than the one returned.
C34_CostBenefitAsGreedy ==
    [][\A d \in Dies :
          (/\ policy = "COST_BENEFIT"
           /\ SelectionStep(d)
           /\ Candidates(Index, d) # {}
           /\ SameAge(d)
           /\ \A b \in Candidates(Index, d) : ScoreFits(d, b)) =>
              LET g == GreedyGetFromGcVictimList(Index, d) IN
              /\ ~fault'
              /\ lastOp'.blk = g.ret
              /\ lastOp'.blk = headBlock[d][HighestNonEmpty(Index, d, SLICES_PER_BLOCK)]
              /\ headBlock' = g.ix.headBlock
              /\ tailBlock' = g.ix.tailBlock
              /\ \A k \in Buckets :
                    /\ Walk(Index', d, k) = Walk(g.ix, d, k)
                    /\ WalkBack(Index', d, k) = WalkBack(g.ix, d, k)
              /\ \A c \in Blocks \ {g.ret} :
                    /\ prevBlock'[d][c] = g.ix.prevBlock[d][c]
                    /\ nextBlock'[d][c] = g.ix.nextBlock[d][c]]_vars

\* Cost-Benefit has just taken the head of the top bucket of a die whose
\* blocks all have the erase stamp 0: the bucket still holds the block that
\* stood behind it, and a lower bucket holds a block too.
C34_Witness ==
    /\ policy = "COST_BENEFIT"
    /\ lastOp.op \in {"GetFromGcVictimList", "GarbageCollection"}
    /\ ~fault
    /\ lastOp.blk # BLOCK_FAIL
    /\ \A b \in Blocks : gcLastTick[lastOp.die][b] = Zero32
    /\ invalidSliceCnt[lastOp.die][lastOp.blk] = 2
    /\ headBlock[lastOp.die][2] # BLOCK_NONE
    /\ headBlock[lastOp.die][1] # BLOCK_NONE

\* Ages at which a score is compared with the score of a logged call: the
\* ages the clock values give, and the first ages at which 4 * (A+1) and
\* 9 * (A+1) pass 2^32.
AgeProbes ==
    ScoreTicks \cup {<<16383, W16 - 1>>, <<7281, 50972>>}

\* The score the build gives the inputs of call c at age A.
ScoreAtAge(c, A) ==
    IF policy = "CAT"
    THEN CatScore(c.invalid, A, c.wear, c.pages)
    ELSE CostBenefitScore(c.invalid, A, c.pages)

\* C35 -- In both scoring builds, for fixed invalid count I >= 1, valid
\* count V and erase count W, the 32-bit score returned does not decrease
\* when the age A grows, over the whole range 0 <= A < 2^32: an older block
\* never scores lower than a younger block that is otherwise the same.
C35_ScoreMonotoneInAge ==
    \A c \in ScoreCalls :
        c.invalid >= 1 =>
            \A A \in AgeProbes :
                ~LessU32(A, c.age) => ~LessU32(ScoreAtAge(c, A), c.ret)

\* C36 -- Provided FindFreeVirtualSliceForGc returns slices outside the
\* victim, each logical slice that is live in the victim when
\* GarbageCollection starts is migrated exactly once: the READs, the WRITEs
\* and the victim slices live at entry are equally many, each such slice is
\* read once and its logical slice written once, and no logical slice is
\* named by two WRITEs of the run.
C36_MigratedExactlyOnce ==
    [][\A d \in Dies :
          (/\ CollectStep(d)
           /\ \A i \in 1 .. Len(reqLog') :
                 IsAllocation(reqLog'[i]) => reqLog'[i].vsa \notin SlicesOf(d, lastOp'.blk)) =>
              LET live == {v \in SlicesOf(d, lastOp'.blk) :
                              IsLive(logicalSliceMap, virtualSliceMap, v)}
                  rd == Positions(reqLog', IsRead)
                  wr == Positions(reqLog', IsWrite)
              IN
              /\ Len(rd) = Cardinality(live)
              /\ Len(wr) = Cardinality(live)
              /\ \A v \in live :
                    /\ Cardinality({i \in 1 .. Len(rd) : reqLog'[rd[i]].vsa = v}) = 1
                    /\ Cardinality({i \in 1 .. Len(wr) :
                                       reqLog'[wr[i]].lsa = virtualSliceMap[v]}) = 1
              /\ \A i, j \in 1 .. Len(wr) :
                    i # j => reqLog'[wr[i]].lsa # reqLog'[wr[j]].lsa]_vars

\* A run has just migrated two logical slices, each by one WRITE to a slice
\* outside the victim.
C36_Witness ==
    /\ lastOp.op = "GarbageCollection"
    /\ ~fault
    /\ lastOp.blk # BLOCK_FAIL
    /\ LET wr == Positions(reqLog, IsWrite) IN
       /\ Len(wr) = 2
       /\ reqLog[wr[1]].lsa # reqLog[wr[2]].lsa
       /\ \A i \in 1 .. 2 :
             /\ Vsa2VblockTranslation(reqLog[wr[i]].vsa) # lastOp.blk
             /\ logicalSliceMap[reqLog[wr[i]].lsa] = reqLog[wr[i]].vsa

\* The logical slice l is live: it is mapped to a slice that maps back to it.
LiveLsa(l2v, v2l, l) == l2v[l] # VSA_NONE /\ v2l[l2v[l]] = l

\* C37 -- Data preservation across GarbageCollection: when EraseBlock(die,
\* victim) is issued no slice of the victim passes the liveness test; every
\* logical slice that was live before the run is live after it
\* (logicalSliceMap[L] = v' with virtualSliceMap[v'] = L); and the
\* logicalSliceMap entry of every logical slice whose live slice was outside
\* the victim is unchanged.
C37_DataPreserved ==
    [][\A d \in Dies :
          CollectStep(d) =>
              LET victim == SlicesOf(d, lastOp'.blk) IN
              /\ \A dest \in DestPlans(goodBlocks, logicalSliceMap, virtualSliceMap,
                                       d, lastOp'.blk) :
                    LET atErase == IF invalidSliceCnt[d][lastOp'.blk] # SLICES_PER_BLOCK
                                   THEN CopyPages(Device, d, lastOp'.blk, 0, dest)
                                   ELSE Device
                    IN \A v \in victim : ~IsLive(atErase.l2v, atErase.v2l, v)
              /\ \A v \in victim : ~IsLive(logicalSliceMap', virtualSliceMap', v)
              /\ \A l \in Lsas :
                    LiveLsa(logicalSliceMap, virtualSliceMap, l) =>
                        /\ LiveLsa(logicalSliceMap', virtualSliceMap', l)
                        /\ logicalSliceMap[l] \notin victim =>
                              logicalSliceMap'[l] = logicalSliceMap[l]]_vars

\* A run has just moved a live logical slice out of its victim while another
\* logical slice, live outside the victim, stayed where it was.
C37_Witness ==
    /\ lastOp.op = "GarbageCollection"
    /\ ~fault
    /\ lastOp.blk # BLOCK_FAIL
    /\ \E l, m \in Lsas :
          /\ l # m
          /\ l \in WrittenLsas(reqLog)
          /\ m \notin WrittenLsas(reqLog)
          /\ LiveLsa(logicalSliceMap, virtualSliceMap, l)
          /\ LiveLsa(logicalSliceMap, virtualSliceMap, m)
          /\ Vsa2VblockTranslation(logicalSliceMap[l]) # lastOp.blk
          /\ Vsa2VblockTranslation(logicalSliceMap[m]) # lastOp.blk

====
